---- MODULE Spec2Model ----
(***************************************************************************)
(* Selection-box geometry engine of the desktop Cropper component          *)
(* (apps/desktop/src/components/Cropper.tsx).                              *)
(*                                                                         *)
(* JavaScript numbers are modelled as exact rationals extended with the    *)
(* three non-finite values of IEEE arithmetic: a number is a record        *)
(* [n, d]; d > 0 is the rational n/d in lowest terms, and d = 0 is         *)
(* +Infinity (n = 1), -Infinity (n = -1) or NaN (n = 0).                   *)
(***************************************************************************)
EXTENDS Integers, Sequences, FiniteSets, TLC

\* A Ratio | null: the empty sequence is null.
NULL == <<>>

\* ------------------------------------------------------------------------
\* Numbers
\* ------------------------------------------------------------------------

AbsInt(i) == IF i < 0 THEN -i ELSE i

SignInt(i) == IF i < 0 THEN -1 ELSE IF i > 0 THEN 1 ELSE 0

RECURSIVE GCD(_, _)
GCD(a, b) == IF b = 0 THEN a ELSE GCD(b, a % b)

\* The number n/d, normalised.
R(n, d) ==
    IF d = 0 THEN [n |-> SignInt(n), d |-> 0]
    ELSE LET g == GCD(AbsInt(n), AbsInt(d))
             s == IF d < 0 THEN -1 ELSE 1
         IN  [n |-> (s * n) \div g, d |-> (s * d) \div g]

I(i) == [n |-> i, d |-> 1]

NaN == [n |-> 0, d |-> 0]

PosInf == [n |-> 1, d |-> 0]

NegInf == [n |-> -1, d |-> 0]

IsNaN(a) == a.d = 0 /\ a.n = 0

IsFinite(a) == a.d > 0

Neg(a) == [n |-> -a.n, d |-> a.d]

Mul(a, b) == R(a.n * b.n, a.d * b.d)

Recip(a) == IF a.n < 0 THEN R(-a.d, -a.n) ELSE R(a.d, a.n)

Div(a, b) == Mul(a, Recip(b))

Add(a, b) ==
    IF a.d = 0 /\ b.d = 0
    THEN (IF a.n = b.n THEN a ELSE NaN)
    ELSE R(a.n * b.d + b.n * a.d, a.d * b.d)

Sub(a, b) == Add(a, Neg(b))

\* a < b as JavaScript decides it: false as soon as one side is NaN.
Lt(a, b) ==
    /\ ~IsNaN(a)
    /\ ~IsNaN(b)
    /\ IF a.d = 0 /\ b.d = 0 THEN a.n < b.n ELSE a.n * b.d < b.n * a.d

Gt(a, b) == Lt(b, a)

Le(a, b) == ~IsNaN(a) /\ ~IsNaN(b) /\ ~Lt(b, a)

Ge(a, b) == Le(b, a)

\* a === b and a !== b on numbers: NaN differs from everything, itself included.
StrictEq(a, b) == ~IsNaN(a) /\ ~IsNaN(b) /\ a = b

StrictNeq(a, b) == ~StrictEq(a, b)

\* Truthiness of a number: 0 and NaN are falsy.
Truthy(a) == ~IsNaN(a) /\ a.n # 0

MathMax(a, b) == IF IsNaN(a) \/ IsNaN(b) THEN NaN ELSE IF Lt(a, b) THEN b ELSE a

MathMin(a, b) == IF IsNaN(a) \/ IsNaN(b) THEN NaN ELSE IF Lt(b, a) THEN b ELSE a

MathAbs(a) == [n |-> AbsInt(a.n), d |-> a.d]

\* Math.floor
FloorInt(a) == a.n \div a.d

MathRound(a) == IF a.d = 0 THEN a ELSE I((2 * a.n + a.d) \div (2 * a.d))

\* Integer square root of a perfect square.
ISqrt(k) == CHOOSE r \in 0..k : r * r = k

\* Math.sqrt on the squares of rationals (the touch points of the model are
\* placed so that every distance is rational).
MathSqrt(a) == IF a.d = 0 THEN a ELSE R(ISqrt(a.n), ISqrt(a.d))

\* function clamp(n, min, max)
clamp(n, min, max) == MathMax(min, MathMin(max, n))

XY(x, y) == [x |-> x, y |-> y]

XYI(x, y) == [x |-> I(x), y |-> I(y)]

ORIGIN_CENTER == XY(R(1, 2), R(1, 2))

ORIGIN_TOP_LEFT == XYI(0, 0)

\* ------------------------------------------------------------------------
\* Box (~/utils/box): the rectangle primitive
\* ------------------------------------------------------------------------

\* Box.from(position, size)
BoxFrom(position, size) ==
    [x |-> position.x, y |-> position.y, width |-> size.x, height |-> size.y]

\* box.toBounds()
toBounds(box) ==
    [position |-> XY(box.x, box.y), size |-> XY(box.width, box.height)]

\* box.move(x, y): sets the top-left corner, no boundary check.
move(box, px, py) == [box EXCEPT !.x = px, !.y = py]

\* box.resize(width, height, origin): the point at `origin` stays fixed.
resize(box, newWidth, newHeight, origin) ==
    LET fromX == Add(box.x, Mul(box.width, origin.x))
        fromY == Add(box.y, Mul(box.height, origin.y))
    IN  [x |-> Sub(fromX, Mul(newWidth, origin.x)),
         y |-> Sub(fromY, Mul(newHeight, origin.y)),
         width |-> newWidth,
         height |-> newHeight]

\* box.constrainToRatio(ratio, origin, axisPriority): one axis is derived from
\* the authoritative one, width by default.
constrainToRatio(box, ratio, origin, axisPriority) ==
    IF axisPriority = "height"
    THEN resize(box, Mul(box.height, ratio), box.height, origin)
    ELSE resize(box, box.width, Div(box.width, ratio), origin)

\* box.constrainToBoundary(maxX, maxY, origin): the size is clamped down to the
\* container about the anchor, then the position is clamped so that the box
\* lies inside [0, maxX] x [0, maxY].
constrainToBoundary(box, maxX, maxY, origin) ==
    LET w == IF Gt(box.width, maxX) THEN maxX ELSE box.width
        h == IF Gt(box.height, maxY) THEN maxY ELSE box.height
        sized == resize(box, w, h, origin)
    IN  [sized EXCEPT !.x = clamp(sized.x, I(0), Sub(maxX, w)),
                      !.y = clamp(sized.y, I(0), Sub(maxY, h))]

\* ------------------------------------------------------------------------
\* Constants of Cropper.tsx
\* ------------------------------------------------------------------------

\* A catalog with an entry 0.0033 below 4:3.
COMMON_RATIOS_MutCrowded ==
    << <<1, 1>>, <<4, 3>>, <<133, 100>>, <<3, 2>>, <<16, 9>>, <<2, 1>>, <<21, 9>> >>

COMMON_RATIOS == << <<1, 1>>, <<4, 3>>, <<3, 2>>, <<16, 9>>, <<2, 1>>, <<21, 9>> >>

KEY_MAPPINGS ==
    [ArrowRight |-> "e", ArrowDown |-> "s", ArrowLeft |-> "w", ArrowUp |-> "n"]

Directions == {"n", "e", "s", "w", "nw", "ne", "se", "sw"}

\* dir.includes(c) for the one- and two-letter directions.
Includes(dir, c) ==
    \/ dir = c
    \/ (c = "n" /\ dir \in {"nw", "ne"})
    \/ (c = "s" /\ dir \in {"sw", "se"})
    \/ (c = "w" /\ dir \in {"nw", "sw"})
    \/ (c = "e" /\ dir \in {"ne", "se"})

\* dir.length
DirLength(dir) == IF dir \in {"n", "e", "s", "w"} THEN 1 ELSE 2

\* findClosestRatio's default threshold, 0.01.
SnapThreshold == R(1, 100)

RECURSIVE ScanRatios(_, _, _)
ScanRatios(currentRatio, threshold, i) ==
    IF i > Len(COMMON_RATIOS) THEN NULL
    ELSE LET ratio == COMMON_RATIOS[i]
         IN  IF Lt(MathAbs(Sub(currentRatio, R(ratio[1], ratio[2]))), threshold)
             THEN <<ratio[1], ratio[2]>>
             ELSE IF Lt(MathAbs(Sub(currentRatio, R(ratio[2], ratio[1]))), threshold)
             THEN <<ratio[2], ratio[1]>>
             ELSE ScanRatios(currentRatio, threshold, i + 1)

findClosestRatioNoInverse(aspectRatio, width, height) ==
    IF Truthy(aspectRatio) THEN NULL
    ELSE LET currentRatio == Div(width, height)
             hits == {i \in 1..Len(COMMON_RATIOS) :
                        Lt(MathAbs(Sub(currentRatio,
                              R(COMMON_RATIOS[i][1], COMMON_RATIOS[i][2]))),
                           SnapThreshold)}
         IN  IF hits = {} THEN NULL
             ELSE COMMON_RATIOS[CHOOSE i \in hits : \A j \in hits : i <= j]

\* findClosestRatio(width, height) with props.aspectRatio
findClosestRatio(aspectRatio, width, height) ==
    IF Truthy(aspectRatio) THEN NULL
    ELSE ScanRatios(Div(width, height), SnapThreshold, 1)

\* minSize memo
minSizeOf(mapped) ==
    XY(MathMin(I(100), Mul(mapped.x, R(1, 10))),
       MathMin(I(100), Mul(mapped.y, R(1, 10))))

\* containerToMappedSizeScale memo
scaleOf(container, mapped) ==
    XY(Div(container.x, mapped.x), Div(container.y, mapped.y))

\* displayScaledCrop memo
displayScaledCropOf(c, container, mapped) ==
    [x |-> Mul(Div(c.position.x, mapped.x), container.x),
     y |-> Mul(Div(c.position.y, mapped.y), container.y),
     width |-> Mul(Div(c.size.x, mapped.x), container.x),
     height |-> Mul(Div(c.size.y, mapped.y), container.y)]

Crop(px, py, sx, sy) == [position |-> XYI(px, py), size |-> XYI(sx, sy)]

\* An optional value (T | undefined | null) is a record of one shape.
Some(v) == [some |-> TRUE, v |-> v]

None == [some |-> FALSE, v |-> XYI(0, 0)]

\* ------------------------------------------------------------------------
\* Text of the numeric inputs: sequences of one-character strings
\* ------------------------------------------------------------------------

Digits == <<"0", "1", "2", "3", "4", "5", "6", "7", "8", "9">>

IsDigit(c) == \E i \in 1..10 : Digits[i] = c

DigitValue(c) == (CHOOSE i \in 1..10 : Digits[i] = c) - 1

RECURSIVE NatToStr(_)
NatToStr(k) ==
    IF k < 10 THEN <<Digits[k + 1]>>
    ELSE Append(NatToStr(k \div 10), Digits[(k % 10) + 1])

\* Math.round(v).toString()
RoundToString(v) ==
    IF IsNaN(v) THEN <<"NaN">>
    ELSE IF v = PosInf THEN <<"Infinity">>
    ELSE IF v = NegInf THEN <<"-", "Infinity">>
    ELSE LET r == MathRound(v).n
         IN  IF r < 0 THEN <<"-">> \o NatToStr(-r) ELSE NatToStr(r)

RECURSIVE ParseDigits(_, _, _)
ParseDigits(text, i, acc) ==
    IF i <= Len(text) /\ IsDigit(text[i])
    THEN ParseDigits(text, i + 1, 10 * acc + DigitValue(text[i]))
    ELSE acc

RECURSIVE SkipSpaces(_, _)
SkipSpaces(text, i) ==
    IF i <= Len(text) /\ text[i] = " " THEN SkipSpaces(text, i + 1) ELSE i

\* parseInt(text): leading white space, an optional sign, then the longest
\* run of digits; NaN when there is no digit.
parseInt(text) ==
    LET i == SkipSpaces(text, 1)
        signed == i <= Len(text) /\ text[i] \in {"-", "+"}
        j == IF signed THEN i + 1 ELSE i
    IN  IF j > Len(text) \/ ~IsDigit(text[j]) THEN NaN
        ELSE IF signed /\ text[i] = "-" THEN I(-ParseDigits(text, j, 0))
        ELSE I(ParseDigits(text, j, 0))

\* ------------------------------------------------------------------------
\* Bounds of the model and the inputs the events are drawn from
\* ------------------------------------------------------------------------

\* Number of input events of one behaviour.
MaxEvents == 2

\* Number of callbacks waiting for the next animation frame.
MaxQueue == 3

\* Height of the recording panel as the DOM measures it.
RecordingBoxHeight == 150

\* containerRef.clientWidth / clientHeight
ContainerSizes == {XYI(1000, 1000), XYI(500, 500), XYI(0, 0)}

\* clientX / clientY of a mousedown
StartPoints == {XYI(0, 0)}

\* props.aspectRatio: 0 stands for an absent ratio (the code only tests its
\* truthiness before using it).
AspectRatios == {I(0), I(1)}

\* The props without a minSize.
Props(mappedSizeProp, aspectRatio, initialSize) ==
    [mappedSize |-> mappedSizeProp, minSize |-> None, aspectRatio |-> aspectRatio,
     initialSize |-> initialSize]

\* The props p with the minSize option supplied.
WithMinSize(p, minSizeProp) == [p EXCEPT !.minSize = Some(minSizeProp)]

\* What the component is constructed with and mounted in: the props,
\* props.value, the size the DOM reports for the container, and the haptics
\* setting of the general settings store.
Config(p, value, client, haptics) ==
    [props |-> p, value |-> value, client |-> client, haptics |-> haptics]

Configs ==
    {Config(Props(Some(XYI(1000, 1000)), I(0), None), Crop(0, 0, 500, 500),
            XYI(1000, 1000), TRUE),
     Config(Props(Some(XYI(1000, 1000)), I(0), None), Crop(600, 0, 300, 300),
            XYI(500, 500), FALSE),
     Config(Props(Some(XYI(1000, 1000)), I(1), None), Crop(0, 0, 200, 200),
            XYI(1000, 1000), TRUE),
     Config(Props(Some(XYI(1000, 1000)), I(0), None), Crop(0, 0, 200, 200),
            XYI(1000, 1000), TRUE),
     Config(Props(Some(XYI(1000, 1000)), I(0), None), Crop(900, 900, 300, 300),
            XYI(0, 0), FALSE),
     Config(Props(None, I(0), Some(XYI(400, 50))), Crop(0, 0, 0, 0),
            XYI(1000, 1000), FALSE),
     Config(Props(None, I(0), None), Crop(300, 300, 300, 300),
            XYI(500, 500), FALSE)}

\* clientX / clientY of mouse events
PointerPoints == {XYI(0, 0), XYI(700, 0), XYI(-150, -67), XYI(300, 100)}

\* ---------------------------------------------------------------------------
\* The share button: the uploadState store and the uploadVideo mutation.
\* ---------------------------------------------------------------------------

\* Runs of the mutation and messages (progress events, channel messages) one
\* behaviour contains.
MaxRuns == 2

MaxMessages == 2

\* The uploadState store; the fields a variant lacks are kept at 0.
UploadState(type, progress, renderedFrames, totalFrames) ==
    [type |-> type, progress |-> progress, renderedFrames |-> renderedFrames,
     totalFrames |-> totalFrames]

UploadIdle == UploadState("idle", 0, 0, 0)

\* type UploadResult
UploadResults ==
    {"Success", "NotAuthenticated", "PlanCheckFailed", "UpgradeRequired",
     "ShareableLinkLimitReached"}

\* Durations of the recording, in seconds, on both sides of the 300 s limit.
Durations == {120, 300}

\* progress payloads of the uploadProgress event.
ProgressPayloads == {R(1, 2), R(333, 1000)}

\* Messages of the export's progress channel.
ChannelMessages ==
    {[type |-> "EstimatedTotalFrames", total_frames |-> 10, current_frame |-> 0],
     [type |-> "FrameRendered", total_frames |-> 0, current_frame |-> 4]}

\* canShare.allowed
CanShare(plan, duration) == plan \/ duration < 300

\* canShare.reason
CanShareReason(plan, duration) ==
    IF ~plan /\ duration >= 300 THEN "upgrade_required" ELSE "null"

\* The uploadProgress listener, with no test of the state.
OnUploadProgressMutUnguarded(state, payload) ==
    [state EXCEPT !.progress = MathRound(Mul(payload, I(100))).n]

\* The uploadProgress listener.
OnUploadProgress(state, payload) ==
    IF state.type # "uploading" THEN state
    ELSE [state EXCEPT !.progress = MathRound(Mul(payload, I(100))).n]

\* progress.onmessage of the export's channel.
OnChannelMessage(state, msg) ==
    IF msg.type = "EstimatedTotalFrames"
    THEN UploadState("rendering", 0, 0, msg.total_frames)
    ELSE IF msg.type = "FrameRendered" /\ state.type = "rendering"
         THEN [state EXCEPT !.renderedFrames = msg.current_frame]
         ELSE state

\* What the mutation function does with the result of uploadExportedVideo:
\* "signin" (the sign-in window is shown, then it throws), "throw" or
\* "return" (the state becomes link-copied and the result is returned).
AfterUpload(result) ==
    IF result = "NotAuthenticated" THEN "signin"
    ELSE IF result = "PlanCheckFailed" THEN "throw"
    ELSE IF result = "UpgradeRequired" THEN "throw"
    ELSE "return"

\* One run of the mutation function: where it is suspended, what it has
\* checked, the registrations and removals of its uploadProgress listener,
\* the result of its upload and how it settled.
NewRun ==
    [pc |-> "auth", auth |-> FALSE, meta |-> FALSE, duration |-> 0,
     allowed |-> FALSE, registered |-> 0, unlistened |-> 0,
     result |-> "none", settled |-> "none"]

NoStep ==
    [kind |-> "none", run |-> 0, pre |-> UploadIdle, status |-> "idle",
     pending |-> {}]

UploadInit ==
    [uploadState |-> UploadIdle, status |-> "idle", current |-> 0,
     runs |-> <<>>, timers |-> <<>>, messages |-> MaxMessages,
     last |-> NoStep]

\* ------------------------------------------------------------------------
\* State
\* ------------------------------------------------------------------------

VARIABLES
    props,                  \* mappedSize, aspectRatio, initialSize
    env,                    \* the environment: the container's client size at
                            \* mount, the haptics setting, and the pointer
                            \* positions and keys its events carry
    crop,                   \* props.value, the host's crop store
    containerSize,          \* signal
    mounted,                \* onMount has run
    snapToRatioEnabled,     \* persisted signal
    snappedRatio,           \* signal, Ratio | null
    dragging,               \* signal
    gestureState,           \* store
    pressedKeys,            \* Set<string>
    lastKeyHandleFrame,     \* a frame is requested for the keyboard
    dragClosure,            \* handleDragStart: lastX, lastY, scaleFactors, listeners
    resizeClosure,          \* handleResizeStart: origin, lastValidPos, box, ...
    hapticRequests,         \* calls of commands.performHapticFeedback
    rafQueue,               \* callbacks requested for the next animation frame
    frameQueue,             \* callbacks of the frame that is running
    trackpadTimers,         \* pending 100 ms timers clearing isTrackpadGesture,
                            \* oldest first, each with the handler that set it
    recordingBoxPosition,   \* signal, "bottom" | "top"
    positionChangeTimeout,  \* handle of the last placement timer, 0 = undefined
    posTimers,              \* pending placement timers
    inputs,                 \* sizeXInput, sizeYInput, posXInput, posYInput
    touches,                \* the touch points on the screen
    mouseDown,              \* a mouse button is held
    budget,                 \* input events left
    last,                   \* the handler that ran last and what it was given
    run,                    \* the commits since the last commit of another
                            \* kind: their number and the crop they started from
    advised,                \* what the last run of updateRecordingBoxPosition
                            \* read and decided
    keyed,                  \* the first two arrow keydowns since the last
                            \* keyboard frame, and those that frame answered
    upload                  \* the share button: its uploadState store, the
                            \* uploadVideo mutation and its runs, the pending
                            \* reset timers, and the step that ran last

vars ==
    <<props, env, crop, containerSize, mounted, snapToRatioEnabled, snappedRatio,
      dragging, gestureState, pressedKeys, lastKeyHandleFrame, dragClosure,
      resizeClosure, hapticRequests, rafQueue, frameQueue, trackpadTimers,
      recordingBoxPosition, positionChangeTimeout, posTimers, inputs, touches,
      mouseDown, budget, last, run, advised, keyed, upload>>

\* mappedSize memo: props.mappedSize || containerSize()
mappedSizeOf(p, container) == IF p.mappedSize.some THEN p.mappedSize.v ELSE container

mappedSize == mappedSizeOf(props, containerSize)

minSize == minSizeOf(mappedSize)

containerToMappedSizeScale == scaleOf(containerSize, mappedSize)

\* The four input signals as the effect on the crop sets them.
DisplayInputs(c) ==
    [sizeX |-> RoundToString(c.size.x), sizeY |-> RoundToString(c.size.y),
     posX |-> RoundToString(c.position.x), posY |-> RoundToString(c.position.y)]

\* A write to the crop store notifies its readers when a component changes.
CropChanged(old, new) ==
    \/ StrictNeq(old.position.x, new.position.x)
    \/ StrictNeq(old.position.y, new.position.y)
    \/ StrictNeq(old.size.x, new.size.x)
    \/ StrictNeq(old.size.y, new.size.y)

\* A callback given to requestAnimationFrame, with the event it closes over.
Request(kind, pos, n, key, shift, alt, mod) ==
    [kind |-> kind, pos |-> pos, n |-> n, key |-> key, shift |-> shift,
     alt |-> alt, mod |-> mod]

AdvisorRequest == Request("advisor", XYI(0, 0), 0, "", FALSE, FALSE, FALSE)

\* requestAnimationFrame(updateRecordingBoxPosition) of the effect on
\* displayScaledCrop. Two evaluations with nothing between them leave the
\* state of one, so a request behind a waiting one adds nothing.
RequestAdvisorFrame(q) ==
    IF Len(q) > 0 /\ q[Len(q)].kind = "advisor" THEN q ELSE Append(q, AdvisorRequest)

\* ------------------------------------------------------------------------
\* Position advisor
\* ------------------------------------------------------------------------

\* The placement rule with the "more room above than below" fallback removed.
RecordingBoxDecisionMutNoFallback(currentPosition, topSpace, bottomSpace, boxHeight) ==
    IF currentPosition = "bottom"
    THEN IF Lt(bottomSpace, Add(boxHeight, I(40)))
              /\ Gt(topSpace, Add(boxHeight, I(40))) THEN "top"
         ELSE "none"
    ELSE IF Lt(topSpace, Add(boxHeight, I(40)))
         THEN IF Gt(bottomSpace, Add(boxHeight, I(40))) THEN "bottom"
              ELSE IF Gt(bottomSpace, topSpace) THEN "bottom"
              ELSE "none"
         ELSE IF Gt(bottomSpace, Add(boxHeight, I(50))) THEN "bottom"
         ELSE "none"

\* The placement rule returning to the bottom as soon as the panel fits there
\* without any margin.
RecordingBoxDecisionMutNoMargin(currentPosition, topSpace, bottomSpace, boxHeight) ==
    IF currentPosition = "bottom"
    THEN IF Lt(bottomSpace, Add(boxHeight, I(40)))
         THEN IF Gt(topSpace, Add(boxHeight, I(40))) THEN "top"
              ELSE IF Gt(topSpace, bottomSpace) THEN "top"
              ELSE "none"
         ELSE "none"
    ELSE IF Lt(topSpace, Add(boxHeight, I(40)))
         THEN IF Gt(bottomSpace, Add(boxHeight, I(40))) THEN "bottom"
              ELSE IF Gt(bottomSpace, topSpace) THEN "bottom"
              ELSE "none"
         ELSE IF Gt(bottomSpace, boxHeight) THEN "bottom"
         ELSE "none"

\* The placement rule with the return to the bottom losing its extra margin.
RecordingBoxDecisionMutNoHysteresis(currentPosition, topSpace, bottomSpace, boxHeight) ==
    IF currentPosition = "bottom"
    THEN IF Lt(bottomSpace, Add(boxHeight, I(40)))
         THEN IF Gt(topSpace, Add(boxHeight, I(40))) THEN "top"
              ELSE IF Gt(topSpace, bottomSpace) THEN "top"
              ELSE "none"
         ELSE "none"
    ELSE IF Lt(topSpace, Add(boxHeight, I(40)))
         THEN IF Gt(bottomSpace, Add(boxHeight, I(40))) THEN "bottom"
              ELSE IF Gt(bottomSpace, topSpace) THEN "bottom"
              ELSE "none"
         ELSE IF Gt(bottomSpace, Add(boxHeight, I(40))) THEN "bottom"
         ELSE "none"

\* The placement the advisor schedules, "none" when it schedules nothing.
RecordingBoxDecision(currentPosition, topSpace, bottomSpace, boxHeight) ==
    IF currentPosition = "bottom"
    THEN IF Lt(bottomSpace, Add(boxHeight, I(40)))
         THEN IF Gt(topSpace, Add(boxHeight, I(40))) THEN "top"
              ELSE IF Gt(topSpace, bottomSpace) THEN "top"
              ELSE "none"
         ELSE "none"
    ELSE IF Lt(topSpace, Add(boxHeight, I(40)))
         THEN IF Gt(bottomSpace, Add(boxHeight, I(40))) THEN "bottom"
              ELSE IF Gt(bottomSpace, topSpace) THEN "bottom"
              ELSE "none"
         ELSE IF Gt(bottomSpace, Add(boxHeight, I(50))) THEN "bottom"
         ELSE "none"

\* An evaluation that leaves the pending timer running.
ClearPendingMutKeep(handle, timers) == timers

\* if (positionChangeTimeout) clearTimeout(positionChangeTimeout)
ClearPending(handle, timers) ==
    IF handle # 0 THEN {t \in timers : t.id # handle} ELSE timers

\* window.setTimeout returns a handle no pending timer has.
FreshTimerId(timers) ==
    CHOOSE i \in 1..(Cardinality(timers) + 1) : \A t \in timers : t.id # i

\* updateRecordingBoxPosition() on crop value c: the new handle and timers.
updateRecordingBoxPosition(c, container, mapped, isDragging, currentPosition, handle, timers) ==
    LET rect == displayScaledCropOf(c, container, mapped)
        bottomSpace == Sub(container.y, Add(rect.y, rect.height))
        topSpace == rect.y
        cleared == ClearPending(handle, timers)
        delay == IF isDragging THEN 0 ELSE 50
        to == RecordingBoxDecision(currentPosition, topSpace, bottomSpace,
                                   I(RecordingBoxHeight))
        id == FreshTimerId(cleared)
        seen == [ran |-> TRUE, position |-> currentPosition, topSpace |-> topSpace,
                 bottomSpace |-> bottomSpace, to |-> to, delay |-> delay,
                 dragging |-> isDragging, resizing |-> FALSE,
                 cancelled |-> cleared # timers]
    IN  IF to = "none" THEN [handle |-> handle, timers |-> cleared, seen |-> seen]
        ELSE [handle |-> id,
              timers |-> cleared \cup {[id |-> id, to |-> to, delay |-> delay]},
              seen |-> seen]

\* The advisor run on crop value c with the dragging flag d; the evaluation
\* is recorded with whether the resize listeners were registered.
Advise(c, d) ==
    \E r \in {updateRecordingBoxPosition(c, containerSize, mappedSize, d,
                  recordingBoxPosition, positionChangeTimeout, posTimers)} :
        /\ positionChangeTimeout' = r.handle
        /\ posTimers' = r.timers
        /\ advised' = [r.seen EXCEPT !.resizing = resizeClosure.listening]

\* ------------------------------------------------------------------------
\* Commit
\* ------------------------------------------------------------------------

\* props.onCropChange(value) with the host writing the value back to the
\* crop store,
\* and the effects that read the store: the numeric inputs are reset and an
\* advisor evaluation is requested for the next frame. inp and q are the
\* inputs and the frame requests as the handler left them.
CommitTo(value, inp, q, after) ==
    /\ crop' = value
    /\ inputs' = IF CropChanged(crop, value) THEN DisplayInputs(value) ELSE inp
    /\ rafQueue' =
           (IF CropChanged(crop, value) THEN RequestAdvisorFrame(q) ELSE q) \o after

setCrop(value, inp, q, after) ==
    /\ CommitTo(value, inp, q, after)
    /\ run' = [n |-> 0, start |-> value, ev |-> AdvisorRequest]

NoCommit(inp, q) ==
    /\ crop' = crop
    /\ inputs' = inp
    /\ rafQueue' = q
    /\ run' = run

\* What the last handler was given: its kind, whether it called setCrop, the
\* crop before it, the mapped delta, the requested size (clamped, and as
\* handed to the Box), the inputs' texts before it, the snapped ratio, the
\* haptic requests and the snap setting before it, whether it scanned
\* COMMON_RATIOS, whether a resize move without a snap has run since the last
\* haptic request (after and before the handler), the trackpad-gesture flag
\* before it, and the rest.
Last(kind, committed, delta, req, dir, center, text) ==
    [kind |-> kind, committed |-> committed, pre |-> crop, delta |-> delta,
     req |-> req, asked |-> req, dir |-> dir, center |-> center, text |-> text,
     shown |-> inputs, prebox |-> resizeClosure.box, mapped |-> mappedSize,
     ev |-> AdvisorRequest, snapped |-> snappedRatio, haptics |-> hapticRequests,
     enabled |-> snapToRatioEnabled, scanned |-> FALSE,
     unsnapped |-> last.unsnapped, unsnappedWas |-> last.unsnapped,
     trackpad |-> gestureState.isTrackpadGesture, client |-> XYI(0, 0)]

NoXY == XYI(0, 0)

ClosureNone ==
    [listening |-> FALSE, lastX |-> I(0), lastY |-> I(0), scaleFactors |-> NoXY]

ResizeNone ==
    [listening |-> FALSE, dir |-> "n", origin |-> NoXY, lastValidPos |-> NoXY,
     box |-> BoxFrom(NoXY, NoXY), scaleFactors |-> NoXY, mapped |-> NoXY,
     hapticsEnabled |-> FALSE]

GestureNone ==
    [isTrackpadGesture |-> FALSE, lastTouchCenter |-> None,
     initialPinchDistance |-> I(0),
     initialSize |-> [width |-> I(0), height |-> I(0)]]

\* The state after the component function has run, before onMount, for a
\* component constructed with one of configs, in an environment whose mouse
\* events carry the positions points and whose keydown events are keys.
InitWith(configs, points, keys, events) ==
    /\ \E c \in configs :
        /\ props = c.props
        /\ crop = c.value
        /\ env = [client |-> c.client, hapticsEnabled |-> c.haptics,
                  points |-> points, keys |-> keys]
    /\ containerSize = XYI(0, 0)
    /\ mounted = FALSE
    /\ snapToRatioEnabled = TRUE
    /\ snappedRatio = NULL
    /\ dragging = FALSE
    /\ gestureState = GestureNone
    /\ pressedKeys = {}
    /\ keyed = [downs |-> <<>>, handled |-> <<>>]
    /\ upload = UploadInit
    /\ lastKeyHandleFrame = FALSE
    /\ dragClosure = ClosureNone
    /\ resizeClosure = ResizeNone
    /\ hapticRequests = 0
    /\ rafQueue = <<>>
    /\ frameQueue = <<>>
    /\ trackpadTimers = <<>>
    /\ recordingBoxPosition = "bottom"
    /\ positionChangeTimeout = 0
    /\ posTimers = {}
    /\ advised = [ran |-> FALSE, position |-> "bottom", topSpace |-> I(0),
                  bottomSpace |-> I(0), to |-> "none", delay |-> 0,
                  dragging |-> FALSE, resizing |-> FALSE, cancelled |-> FALSE]
    /\ inputs = DisplayInputs(crop)
    /\ touches = <<>>
    /\ mouseDown = FALSE
    /\ budget = events
    /\ last = [kind |-> "init", committed |-> FALSE, pre |-> crop, delta |-> NoXY,
               req |-> NoXY, asked |-> NoXY, dir |-> "n", center |-> FALSE,
               text |-> <<>>, shown |-> inputs, prebox |-> ResizeNone.box,
               mapped |-> NoXY, ev |-> AdvisorRequest, snapped |-> NULL,
               haptics |-> 0, enabled |-> TRUE, scanned |-> FALSE,
               unsnapped |-> TRUE, unsnappedWas |-> TRUE, trackpad |-> FALSE,
               client |-> NoXY]
    /\ run = [n |-> 0, start |-> crop, ev |-> AdvisorRequest]

\* onMount seeds the crop with the initial size as it is given.
SeedSizeMutUnclamped(initial, min, mapped) == initial

\* onMount: width and height of the crop it seeds.
SeedSize(initial, min, mapped) ==
    XY(clamp(initial.x, min.x, mapped.x), clamp(initial.y, min.y, mapped.y))

\* onMount commits the validated bounds whether or not they differ.
ValidationCommitsMutAlways(bounds, c) == TRUE

\* onMount commits the validated bounds when a component differs from the
\* crop's.
ValidationCommits(bounds, c) == CropChanged(c, bounds)

\* onMount (the container is measured, the crop is seeded or validated) and
\* the first run of the effects: on the aspect ratio, on the crop (inputs)
\* and on displayScaledCrop (advisor frame).
Mount ==
    /\ ~mounted
    /\ LET size == env.client
           mapped == mappedSizeOf(props, size)
           min == minSizeOf(mapped)
           hasExistingCrop == Gt(crop.size.x, I(0)) /\ Gt(crop.size.y, I(0))
           initial == IF props.initialSize.some THEN props.initialSize.v
                      ELSE XY(Div(mapped.x, I(2)), Div(mapped.y, I(2)))
           width == SeedSize(initial, min, mapped).x
           height == SeedSize(initial, min, mapped).y
           seeded == [size |-> XY(width, height),
                      position |-> XY(Div(Sub(mapped.x, width), I(2)),
                                      Div(Sub(mapped.y, height), I(2)))]
           bounds == toBounds(constrainToBoundary(
                         BoxFrom(crop.position, crop.size),
                         mapped.x, mapped.y, ORIGIN_CENTER))
           commits == ~hasExistingCrop \/ ValidationCommits(bounds, crop)
           value == IF ~hasExistingCrop THEN seeded ELSE bounds
       IN  /\ containerSize' = size
           /\ crop' = IF commits THEN value ELSE crop
           /\ run' = [n |-> 0, start |-> crop', ev |-> AdvisorRequest]
           /\ inputs' = DisplayInputs(crop')
           /\ rafQueue' = RequestAdvisorFrame(rafQueue)
           /\ trackpadTimers' =
                  IF Truthy(props.aspectRatio) THEN Append(trackpadTimers, "effect")
                  ELSE trackpadTimers
           /\ last' = [Last("mount", commits, NoXY, initial, "n", FALSE, <<>>)
                         EXCEPT !.mapped = mapped]
    /\ mounted' = TRUE
    /\ snappedRatio' = NULL
    /\ UNCHANGED <<upload, keyed, props, env, snapToRatioEnabled, dragging, gestureState, pressedKeys,
                   lastKeyHandleFrame, dragClosure, resizeClosure, hapticRequests,
                   frameQueue, recordingBoxPosition, positionChangeTimeout,
                   posTimers, advised, touches, mouseDown, budget>>

\* An input event can be delivered: the component is mounted, no animation
\* frame is running, and the bounds of the model leave room for it.
CanHandle ==
    /\ mounted
    /\ frameQueue = <<>>
    /\ budget > 0
    /\ Len(rafQueue) + 2 <= MaxQueue

\* The callbacks of the running frame, or of the frame that starts now.
FrameCallbacks == IF frameQueue # <<>> THEN frameQueue ELSE rafQueue

\* The requests made for the frame after it.
FrameRequests == IF frameQueue # <<>> THEN rafQueue ELSE <<>>

\* ------------------------------------------------------------------------
\* Pointer drag
\* ------------------------------------------------------------------------

\* handleDragStart returns early for an input target only.
DragStartIgnoredMutInputOnly(isTrackpadGesture, targetIsInput) == targetIsInput

\* handleDragStart: the early return
DragStartIgnored(isTrackpadGesture, targetIsInput) ==
    isTrackpadGesture \/ targetIsInput

\* mousedown on the crop area
handleDragStart ==
    /\ CanHandle
    /\ ~mouseDown
    /\ ~dragClosure.listening
    /\ ~resizeClosure.listening
    /\ \E p \in StartPoints, targetIsInput \in BOOLEAN :
        /\ IF DragStartIgnored(gestureState.isTrackpadGesture, targetIsInput)
           THEN UNCHANGED <<dragging, dragClosure>>
           ELSE /\ dragging' = TRUE
                /\ dragClosure' = [listening |-> TRUE, lastX |-> p.x, lastY |-> p.y,
                                   scaleFactors |-> containerToMappedSizeScale]
        /\ last' = Last("dragStart", FALSE, NoXY, NoXY, "n", targetIsInput, <<>>)
    /\ mouseDown' = TRUE
    /\ budget' = budget - 1
    /\ UNCHANGED <<upload, keyed, props, env, crop, run, containerSize, mounted, snapToRatioEnabled,
                   snappedRatio, gestureState, pressedKeys, lastKeyHandleFrame,
                   resizeClosure, hapticRequests, rafQueue, frameQueue,
                   trackpadTimers, recordingBoxPosition, positionChangeTimeout,
                   posTimers, advised, inputs, touches>>

\* handleDrag without the clamp of the new position.
DragTargetMutUnclamped(c, mapped, dx, dy) ==
    LET box == BoxFrom(c.position, c.size)
    IN  toBounds(move(box, Add(box.x, dx), Add(box.y, dy)))

\* The position handleDrag moves the box to.
DragTarget(c, mapped, dx, dy) ==
    LET box == BoxFrom(c.position, c.size)
    IN  toBounds(move(box,
            clamp(Add(box.x, dx), I(0), Sub(mapped.x, box.width)),
            clamp(Add(box.y, dy), I(0), Sub(mapped.y, box.height))))

\* mousemove on the document while the drag listeners are registered
handleDrag ==
    /\ CanHandle
    /\ dragClosure.listening
    /\ \E p \in env.points :
        LET dx == Div(Sub(p.x, dragClosure.lastX), dragClosure.scaleFactors.x)
            dy == Div(Sub(p.y, dragClosure.lastY), dragClosure.scaleFactors.y)
        IN  /\ dragClosure' = [dragClosure EXCEPT !.lastX = p.x, !.lastY = p.y]
            /\ setCrop(DragTarget(crop, mappedSize, dx, dy), inputs, rafQueue, <<>>)
            /\ last' = [Last("drag", TRUE, XY(dx, dy), NoXY, "n", FALSE, <<>>)
                          EXCEPT !.client = XY(Sub(p.x, dragClosure.lastX),
                                               Sub(p.y, dragClosure.lastY))]
    /\ Advise(crop', dragging)
    /\ budget' = budget - 1
    /\ UNCHANGED <<upload, keyed, props, env, containerSize, mounted, snapToRatioEnabled, snappedRatio,
                   dragging, gestureState, pressedKeys, lastKeyHandleFrame,
                   resizeClosure, hapticRequests, frameQueue, trackpadTimers,
                   recordingBoxPosition, touches, mouseDown>>

\* mouseup: handleDragEnd on the document, the mouseup listener of a resize
\* on the window.
handleMouseUp ==
    /\ CanHandle
    /\ mouseDown \/ resizeClosure.listening
    /\ dragging' = IF dragClosure.listening THEN FALSE ELSE dragging
    /\ dragClosure' = [dragClosure EXCEPT !.listening = FALSE]
    /\ resizeClosure' = [resizeClosure EXCEPT !.listening = FALSE]
    /\ IF dragClosure.listening \/ resizeClosure.listening
       THEN Advise(crop, dragging')
       ELSE UNCHANGED <<positionChangeTimeout, posTimers, advised>>
    /\ mouseDown' = FALSE
    /\ budget' = budget - 1
    /\ last' = Last("mouseUp", FALSE, NoXY, NoXY, "n", FALSE, <<>>)
    /\ UNCHANGED <<upload, keyed, props, env, crop, run, containerSize, mounted, snapToRatioEnabled,
                   snappedRatio, gestureState, pressedKeys, lastKeyHandleFrame,
                   hapticRequests, rafQueue, frameQueue, trackpadTimers,
                   recordingBoxPosition, inputs, touches>>

\* ------------------------------------------------------------------------
\* Wheel
\* ------------------------------------------------------------------------

\* ctrlKey, deltaX, deltaY of wheel events
WheelEvents ==
    {[ctrlKey |-> TRUE, deltaX |-> I(0), deltaY |-> I(10)],
     [ctrlKey |-> TRUE, deltaX |-> I(0), deltaY |-> I(-10)],
     [ctrlKey |-> TRUE, deltaX |-> I(0), deltaY |-> I(40)],
     [ctrlKey |-> FALSE, deltaX |-> I(-100), deltaY |-> I(0)],
     [ctrlKey |-> FALSE, deltaX |-> I(30), deltaY |-> I(-200)]}

\* The scale factor of a ctrl+wheel event.
WheelScale(deltaY) ==
    LET velocity == MathMax(R(1, 1000), Mul(MathAbs(deltaY), R(1, 1000)))
    IN  Sub(I(1), Mul(deltaY, velocity))

\* The mapped delta of a wheel pan.
WheelPanDelta(scaleFactors, event) ==
    LET velocity == MathMax(I(1), Mul(MathAbs(event.deltaY), R(1, 100)))
    IN  XY(Div(Mul(Neg(event.deltaX), velocity), scaleFactors.x),
           Div(Mul(Neg(event.deltaY), velocity), scaleFactors.y))

\* The box a wheel event commits.
WheelTarget(c, mapped, min, scaleFactors, event) ==
    LET box == BoxFrom(c.position, c.size)
    IN  IF event.ctrlKey
        THEN LET scale == WheelScale(event.deltaY)
                 sized == resize(box,
                              clamp(Mul(box.width, scale), min.x, mapped.x),
                              clamp(Mul(box.height, scale), min.y, mapped.y),
                              ORIGIN_CENTER)
             IN  toBounds(constrainToBoundary(sized, mapped.x, mapped.y, ORIGIN_CENTER))
        ELSE LET d == WheelPanDelta(scaleFactors, event)
             IN  toBounds(move(box,
                     clamp(Add(box.x, d.x), I(0), Sub(mapped.x, box.width)),
                     clamp(Add(box.y, d.y), I(0), Sub(mapped.y, box.height))))

handleWheel ==
    /\ CanHandle
    /\ \E event \in WheelEvents :
        /\ IF event.ctrlKey
           THEN /\ gestureState' = [gestureState EXCEPT !.isTrackpadGesture = TRUE]
                /\ trackpadTimers' = Append(trackpadTimers, "wheel")
                /\ snappedRatio' = NULL
           ELSE UNCHANGED <<gestureState, trackpadTimers, snappedRatio>>
        /\ setCrop(WheelTarget(crop, mappedSize, minSize,
                               containerToMappedSizeScale, event),
                   inputs, rafQueue, <<>>)
        /\ last' = Last(IF event.ctrlKey THEN "wheelScale" ELSE "wheelPan", TRUE,
                        IF event.ctrlKey THEN NoXY
                        ELSE WheelPanDelta(containerToMappedSizeScale, event),
                        IF event.ctrlKey
                        THEN XY(Mul(crop.size.x, WheelScale(event.deltaY)),
                                Mul(crop.size.y, WheelScale(event.deltaY)))
                        ELSE NoXY,
                        "n", FALSE, <<>>)
    /\ budget' = budget - 1
    /\ UNCHANGED <<upload, keyed, props, env, containerSize, mounted, snapToRatioEnabled, dragging,
                   pressedKeys, lastKeyHandleFrame, dragClosure, resizeClosure,
                   hapticRequests, frameQueue, recordingBoxPosition,
                   positionChangeTimeout, posTimers, advised, touches, mouseDown>>

\* ------------------------------------------------------------------------
\* Touch
\* ------------------------------------------------------------------------

\* event.touches of touch events: one, two and three fingers
TouchLists ==
    {<<XYI(0, 0)>>, <<XYI(50, 20)>>,
     <<XYI(0, 0), XYI(100, 0)>>, <<XYI(0, 0), XYI(200, 0)>>,
     <<XYI(75, 10), XYI(125, 10)>>,
     <<XYI(0, 0), XYI(100, 0), XYI(200, 0)>>}

\* The touches left when some fingers are lifted.
RemainingTouches(ts) == {SubSeq(ts, 1, k) : k \in 0..(Len(ts) - 1)} \cup {Tail(ts)}

\* The touches after more fingers come down.
AddedTouches(ts) ==
    {l \in TouchLists : Len(l) > Len(ts) /\ SubSeq(l, 1, Len(ts)) = ts}

distanceOf(firstPoint, secondPoint) ==
    LET dx == Sub(firstPoint.x, secondPoint.x)
        dy == Sub(firstPoint.y, secondPoint.y)
    IN  MathSqrt(Add(Mul(dx, dx), Mul(dy, dy)))

TouchCenter(ts) ==
    XY(Div(Add(ts[1].x, ts[2].x), I(2)), Div(Add(ts[1].y, ts[2].y), I(2)))

\* touchstart reaching the container
handleTouchStart ==
    /\ CanHandle
    /\ \E ts \in AddedTouches(touches) :
        /\ touches' = ts
        /\ IF Len(ts) = 2
           THEN /\ gestureState' =
                       [gestureState EXCEPT
                           !.initialPinchDistance = distanceOf(ts[1], ts[2]),
                           !.initialSize = [width |-> crop.size.x,
                                            height |-> crop.size.y],
                           !.lastTouchCenter = Some(TouchCenter(ts))]
                /\ UNCHANGED dragging
           ELSE IF Len(ts) = 1
           THEN /\ dragging' = TRUE
                /\ gestureState' = [gestureState EXCEPT !.lastTouchCenter = Some(ts[1])]
           ELSE UNCHANGED <<gestureState, dragging>>
    /\ budget' = budget - 1
    /\ last' = Last("touchStart", FALSE, NoXY, NoXY, "n", FALSE, <<>>)
    /\ UNCHANGED <<upload, keyed, props, env, crop, run, containerSize, mounted, snapToRatioEnabled,
                   snappedRatio, pressedKeys, lastKeyHandleFrame, dragClosure,
                   resizeClosure, hapticRequests, rafQueue, frameQueue,
                   trackpadTimers, recordingBoxPosition, positionChangeTimeout,
                   posTimers, advised, inputs, mouseDown>>

\* The scale of a two-finger move.
PinchScale(ts, gs) == Div(distanceOf(ts[1], ts[2]), gs.initialPinchDistance)

\* The size a two-finger move asks for, before the height adjustment.
PinchWidth(gs, min, mapped, scale) ==
    clamp(Mul(gs.initialSize.width, scale), min.x, mapped.x)

\* The mapped delta of the touch centre.
TouchDelta(center, gs, scaleFactors) ==
    XY(Div(Sub(center.x, gs.lastTouchCenter.v.x), scaleFactors.x),
       Div(Sub(center.y, gs.lastTouchCenter.v.y), scaleFactors.y))

\* The box a two-finger move commits.
PinchTarget(c, mapped, min, scaleFactors, gs, ts) ==
    LET scale == PinchScale(ts, gs)
        box == BoxFrom(c.position, c.size)
        currentRatio == Div(c.size.x, c.size.y)
        w0 == PinchWidth(gs, min, mapped, scale)
        h0 == Div(w0, currentRatio)
        adjust == Lt(h0, min.y) \/ Gt(h0, mapped.y)
        newHeight == IF adjust THEN clamp(h0, min.y, mapped.y) ELSE h0
        newWidth == IF adjust THEN Mul(newHeight, currentRatio) ELSE w0
        sized == resize(box, newWidth, newHeight, ORIGIN_CENTER)
        d == TouchDelta(TouchCenter(ts), gs, scaleFactors)
    IN  IF gs.lastTouchCenter.some
        THEN toBounds(move(sized,
                 clamp(Add(sized.x, d.x), I(0), Sub(mapped.x, sized.width)),
                 clamp(Add(sized.y, d.y), I(0), Sub(mapped.y, sized.height))))
        ELSE toBounds(sized)

\* The box a one-finger move commits.
TouchDragTarget(c, mapped, scaleFactors, gs, ts) ==
    LET d == TouchDelta(ts[1], gs, scaleFactors)
    IN  IF gs.lastTouchCenter.some THEN DragTarget(c, mapped, d.x, d.y) ELSE c

\* The request the touchmove listener of a resize makes.
ResizeTouchRequest(ts) ==
    IF resizeClosure.listening
    THEN <<Request("resizeTouch", ts[1], Len(ts), "", FALSE, FALSE, FALSE)>>
    ELSE <<>>

\* touchmove: handleTouchMove on the container, then the touchmove listener
\* of a resize on the window.
handleTouchMove ==
    /\ CanHandle
    /\ Len(touches) > 0
    /\ \E ts \in TouchLists :
        /\ Len(ts) = Len(touches)
        /\ ts # touches
        /\ touches' = ts
        /\ IF Len(ts) = 2
           THEN /\ gestureState' =
                       [gestureState EXCEPT !.lastTouchCenter = Some(TouchCenter(ts))]
                /\ setCrop(PinchTarget(crop, mappedSize, minSize,
                                       containerToMappedSizeScale, gestureState, ts),
                           inputs, rafQueue, ResizeTouchRequest(ts))
                /\ last' = Last("pinch", TRUE,
                                IF gestureState.lastTouchCenter.some
                                THEN TouchDelta(TouchCenter(ts), gestureState,
                                                containerToMappedSizeScale)
                                ELSE NoXY,
                                XY(PinchScale(ts, gestureState),
                                   PinchWidth(gestureState, minSize, mappedSize,
                                              PinchScale(ts, gestureState))),
                                "n", FALSE, <<>>)
           ELSE IF Len(ts) = 1 /\ dragging
           THEN /\ gestureState' = [gestureState EXCEPT !.lastTouchCenter = Some(ts[1])]
                /\ setCrop(TouchDragTarget(crop, mappedSize,
                                           containerToMappedSizeScale, gestureState, ts),
                           inputs, rafQueue, ResizeTouchRequest(ts))
                /\ last' = [Last("touchDrag", TRUE,
                                 IF gestureState.lastTouchCenter.some
                                 THEN TouchDelta(ts[1], gestureState,
                                                 containerToMappedSizeScale)
                                 ELSE NoXY,
                                 NoXY, "n", FALSE, <<>>)
                              EXCEPT !.client = XY(Sub(ts[1].x, touches[1].x),
                                                   Sub(ts[1].y, touches[1].y))]
           ELSE /\ NoCommit(inputs, rafQueue \o ResizeTouchRequest(ts))
                /\ last' = Last("touchMove", FALSE, NoXY, NoXY, "n", FALSE, <<>>)
                /\ UNCHANGED gestureState
    /\ budget' = budget - 1
    /\ UNCHANGED <<upload, keyed, props, env, containerSize, mounted, snapToRatioEnabled, snappedRatio,
                   dragging, pressedKeys, lastKeyHandleFrame, dragClosure,
                   resizeClosure, hapticRequests, frameQueue, trackpadTimers,
                   recordingBoxPosition, positionChangeTimeout, posTimers, advised, mouseDown>>

\* A touchend that leaves lastTouchCenter where the last move put it while
\* a finger remains.
TouchEndStateMutNoAnchor(gs, ts) ==
    IF Len(ts) = 0 THEN [gs EXCEPT !.lastTouchCenter = None] ELSE gs

\* The gesture store after handleTouchEnd with ts the touches that remain.
TouchEndState(gs, ts) ==
    IF Len(ts) = 0 THEN [gs EXCEPT !.lastTouchCenter = None]
    ELSE IF Len(ts) = 1 THEN [gs EXCEPT !.lastTouchCenter = Some(ts[1])]
    ELSE gs

\* touchend: handleTouchEnd on the container, then the touchend listener of
\* a resize on the window.
handleTouchEnd ==
    /\ CanHandle
    /\ Len(touches) > 0
    /\ \E ts \in RemainingTouches(touches) :
        /\ touches' = ts
        /\ gestureState' = TouchEndState(gestureState, ts)
        /\ dragging' = IF Len(ts) = 0 THEN FALSE ELSE dragging
    /\ IF resizeClosure.listening
       THEN Advise(crop, dragging')
       ELSE UNCHANGED <<positionChangeTimeout, posTimers, advised>>
    /\ resizeClosure' = [resizeClosure EXCEPT !.listening = FALSE]
    /\ budget' = budget - 1
    /\ last' = Last("touchEnd", FALSE, NoXY, NoXY, "n", FALSE, <<>>)
    /\ UNCHANGED <<upload, keyed, props, env, crop, run, containerSize, mounted, snapToRatioEnabled,
                   snappedRatio, pressedKeys, lastKeyHandleFrame, dragClosure,
                   hapticRequests, rafQueue, frameQueue, trackpadTimers,
                   recordingBoxPosition, inputs, mouseDown>>

\* ------------------------------------------------------------------------
\* Pointer resize
\* ------------------------------------------------------------------------

\* The anchor handleResizeStart derives from the handle's direction.
ResizeOriginMutSameSide(dir) ==
    XY(IF Includes(dir, "e") THEN I(1) ELSE I(0),
       IF Includes(dir, "s") THEN I(1) ELSE I(0))

ResizeOrigin(dir) ==
    XY(IF Includes(dir, "w") THEN I(1) ELSE I(0),
       IF Includes(dir, "n") THEN I(1) ELSE I(0))

\* No callback of an earlier resize is still waiting for a frame.
NoResizeRequest ==
    \A i \in 1..Len(rafQueue) : rafQueue[i].kind \notin {"resizeMouse", "resizeTouch"}

\* handleResizeStart(clientX, clientY, dir): the closure and its listeners.
\* hapticsEnabled is the value its resource resolves to.
handleResizeStart(p, dir) ==
    resizeClosure' =
        [listening |-> TRUE, dir |-> dir, origin |-> ResizeOrigin(dir),
         lastValidPos |-> p, box |-> BoxFrom(crop.position, crop.size),
         scaleFactors |-> containerToMappedSizeScale, mapped |-> mappedSize,
         hapticsEnabled |-> env.hapticsEnabled]

\* mousedown on a handle
handleMouseDown ==
    /\ CanHandle
    /\ ~mouseDown
    /\ ~dragClosure.listening
    /\ ~resizeClosure.listening
    /\ NoResizeRequest
    /\ \E p \in StartPoints, dir \in Directions :
        /\ handleResizeStart(p, dir)
        /\ last' = Last("resizeStart", FALSE, NoXY, NoXY, dir, FALSE, <<>>)
    /\ mouseDown' = TRUE
    /\ budget' = budget - 1
    /\ UNCHANGED <<upload, keyed, props, env, crop, run, containerSize, mounted, snapToRatioEnabled,
                   snappedRatio, dragging, gestureState, pressedKeys,
                   lastKeyHandleFrame, dragClosure, hapticRequests, rafQueue,
                   frameQueue, trackpadTimers, recordingBoxPosition,
                   positionChangeTimeout, posTimers, advised, inputs, touches>>

\* touchstart on a handle with one finger on the screen
handleResizeStartTouch ==
    /\ CanHandle
    /\ touches = <<>>
    /\ ~dragClosure.listening
    /\ ~resizeClosure.listening
    /\ NoResizeRequest
    /\ \E p \in StartPoints, dir \in Directions :
        /\ touches' = <<p>>
        /\ handleResizeStart(p, dir)
        /\ last' = Last("resizeStart", FALSE, NoXY, NoXY, dir, FALSE, <<>>)
    /\ budget' = budget - 1
    /\ UNCHANGED <<upload, keyed, props, env, crop, run, containerSize, mounted, snapToRatioEnabled,
                   snappedRatio, dragging, gestureState, pressedKeys,
                   lastKeyHandleFrame, dragClosure, hapticRequests, rafQueue,
                   frameQueue, trackpadTimers, recordingBoxPosition,
                   positionChangeTimeout, posTimers, advised, inputs, mouseDown>>

\* mousemove on the window while the resize listeners are registered
resizeMouseMove ==
    /\ CanHandle
    /\ resizeClosure.listening
    /\ \E p \in env.points, altKey \in BOOLEAN :
        rafQueue' = Append(rafQueue,
                        Request("resizeMouse", p, 1, "", FALSE, altKey, FALSE))
    /\ budget' = budget - 1
    /\ last' = Last("resizeMouseMove", FALSE, NoXY, NoXY, "n", FALSE, <<>>)
    /\ UNCHANGED <<upload, keyed, props, env, crop, run, containerSize, mounted, snapToRatioEnabled,
                   snappedRatio, dragging, gestureState, pressedKeys,
                   lastKeyHandleFrame, dragClosure, resizeClosure, hapticRequests,
                   frameQueue, trackpadTimers, recordingBoxPosition,
                   positionChangeTimeout, posTimers, advised, inputs, touches, mouseDown>>

\* The size handleResizeMove asks for on one axis: the clamped candidate.
ResizeCandidate(rc, min, d, centerOrigin) ==
    LET scaleMultiplier == IF centerOrigin THEN I(2) ELSE I(1)
        currentBox == toBounds(rc.box)
    IN  XY(IF Includes(rc.dir, "e") \/ Includes(rc.dir, "w")
           THEN clamp(IF Includes(rc.dir, "w")
                      THEN Sub(currentBox.size.x, Mul(d.x, scaleMultiplier))
                      ELSE Add(currentBox.size.x, Mul(d.x, scaleMultiplier)),
                      min.x, rc.mapped.x)
           ELSE currentBox.size.x,
           IF Includes(rc.dir, "n") \/ Includes(rc.dir, "s")
           THEN clamp(IF Includes(rc.dir, "n")
                      THEN Sub(currentBox.size.y, Mul(d.y, scaleMultiplier))
                      ELSE Add(currentBox.size.y, Mul(d.y, scaleMultiplier)),
                      min.y, rc.mapped.y)
           ELSE currentBox.size.y)

\* handleResizeMove snaps the candidate of an edge handle too.
SnapsMutEdges(rc, enabled, closest) == enabled /\ closest # NULL

\* Whether handleResizeMove snaps the candidate to `closest`.
Snaps(rc, enabled, closest) == DirLength(rc.dir) = 2 /\ enabled /\ closest # NULL

\* The size after the snap override.
SnappedSize(rc, cand, closest) ==
    LET ratio == R(closest[1], closest[2])
    IN  IF Includes(rc.dir, "n") \/ Includes(rc.dir, "s")
        THEN XY(Mul(cand.y, ratio), cand.y)
        ELSE XY(cand.x, Div(cand.x, ratio))

\* A snapped move requests haptic feedback whatever the snapped ratio was.
RequestsHapticMutEverySnap(snaps, snapped, enabled) == snaps /\ enabled

\* handleResizeMove: a snapped move requests haptic feedback.
RequestsHaptic(snaps, snapped, enabled) == snaps /\ snapped = NULL /\ enabled

\* handleResizeMove(moveX, moveY, centerOrigin) and updateRecordingBoxPosition()
handleResizeMove(p, centerOrigin) ==
    LET rc == resizeClosure
        newOrigin == IF centerOrigin THEN ORIGIN_CENTER ELSE rc.origin
    IN  \E d \in {XY(Div(Sub(p.x, rc.lastValidPos.x), rc.scaleFactors.x),
                      Div(Sub(p.y, rc.lastValidPos.y), rc.scaleFactors.y))} :
        \E cand \in {ResizeCandidate(rc, minSize, d, centerOrigin)} :
        \E closest \in {findClosestRatio(props.aspectRatio, cand.x, cand.y)} :
        \E snaps \in {Snaps(rc, snapToRatioEnabled, closest)} :
        \E size \in {IF snaps THEN SnappedSize(rc, cand, closest) ELSE cand} :
        \E resized \in {resize(rc.box, size.x, size.y, newOrigin)} :
        \E box \in {constrainToBoundary(resized, rc.mapped.x, rc.mapped.y, newOrigin)} :
        \E value \in {toBounds(box)} :
            /\ resizeClosure' = [rc EXCEPT !.lastValidPos = p, !.box = box]
            /\ hapticRequests' =
                   IF RequestsHaptic(snaps, snappedRatio, rc.hapticsEnabled)
                   THEN hapticRequests + 1 ELSE hapticRequests
            /\ snappedRatio' = IF snaps THEN closest ELSE NULL
            /\ setCrop(value, inputs, FrameRequests, <<>>)
            /\ Advise(value, dragging)
            /\ last' = [Last("resize", TRUE, d, cand, rc.dir, centerOrigin, <<>>)
                          EXCEPT !.mapped = rc.mapped, !.asked = size,
                                 !.client = XY(Sub(p.x, rc.lastValidPos.x),
                                               Sub(p.y, rc.lastValidPos.y)),
                                 !.scanned = ~Truthy(props.aspectRatio),
                                 !.unsnapped =
                                     IF RequestsHaptic(snaps, snappedRatio,
                                                       rc.hapticsEnabled)
                                     THEN FALSE
                                     ELSE IF snaps THEN last.unsnapped ELSE TRUE]

\* the frame callback of a resize mousemove or touchmove runs
resizeFrame ==
    /\ mounted
    /\ FrameCallbacks # <<>>
    /\ FrameCallbacks[1].kind \in {"resizeMouse", "resizeTouch"}
    /\ frameQueue' = Tail(FrameCallbacks)
    /\ LET cb == FrameCallbacks[1]
       IN  IF cb.kind = "resizeTouch" /\ cb.n # 1
           THEN /\ NoCommit(inputs, FrameRequests)
                /\ UNCHANGED <<resizeClosure, hapticRequests, snappedRatio,
                               positionChangeTimeout, posTimers, advised, last>>
           ELSE handleResizeMove(cb.pos, cb.alt)
    /\ UNCHANGED <<upload, keyed, props, env, containerSize, mounted, snapToRatioEnabled, dragging,
                   gestureState, pressedKeys, lastKeyHandleFrame, dragClosure,
                   trackpadTimers, recordingBoxPosition, touches, mouseDown, budget>>

\* ------------------------------------------------------------------------
\* Keyboard
\* ------------------------------------------------------------------------

\* key, shiftKey, altKey and metaKey || ctrlKey of keydown events
KeyEvents ==
    {Request("key", NoXY, 0, "ArrowLeft", FALSE, FALSE, TRUE),
     Request("key", NoXY, 0, "ArrowRight", TRUE, FALSE, TRUE),
     Request("key", NoXY, 0, "ArrowDown", FALSE, TRUE, TRUE),
     Request("key", NoXY, 0, "ArrowUp", FALSE, FALSE, FALSE),
     Request("key", NoXY, 0, "ArrowRight", TRUE, FALSE, FALSE),
     Request("key", NoXY, 0, "a", FALSE, FALSE, FALSE)}

\* handleKeyDown requests a frame for every keydown.
SchedulesKeyFrameMutAlways(handle) == TRUE

\* handleKeyDown: if (lastKeyHandleFrame) return
SchedulesKeyFrame(handle) == ~handle

\* keydown on the container
handleKeyDown ==
    /\ CanHandle
    /\ \E event \in env.keys :
        IF event.key \notin DOMAIN KEY_MAPPINGS
        THEN UNCHANGED <<pressedKeys, lastKeyHandleFrame, rafQueue, keyed>>
        ELSE /\ pressedKeys' = pressedKeys \cup {event.key}
             /\ keyed' = IF Len(keyed.downs) < 2
                         THEN [keyed EXCEPT !.downs = Append(keyed.downs, event)]
                         ELSE keyed
             /\ IF ~SchedulesKeyFrame(lastKeyHandleFrame)
                THEN UNCHANGED <<lastKeyHandleFrame, rafQueue>>
                ELSE /\ lastKeyHandleFrame' = TRUE
                     /\ rafQueue' = Append(rafQueue, event)
    /\ budget' = budget - 1
    /\ last' = Last("keyDown", FALSE, NoXY, NoXY, "n", FALSE, <<>>)
    /\ UNCHANGED <<upload, props, env, crop, run, containerSize, mounted, snapToRatioEnabled,
                   snappedRatio, dragging, gestureState, dragClosure, resizeClosure,
                   hapticRequests, frameQueue, trackpadTimers, recordingBoxPosition,
                   positionChangeTimeout, posTimers, advised, inputs, touches, mouseDown>>

\* const moveDelta = event.shiftKey ? 20 : 5
MoveDeltaMutTen(event) == IF event.shift THEN 20 ELSE 10

MoveDelta(event) == IF event.shift THEN 20 ELSE 5

\* The size a keyboard resize asks for.
KeyResizeSize(c, min, mapped, event) ==
    LET dir == KEY_MAPPINGS[event.key]
        step == Mul(I(MoveDelta(event)), IF event.alt THEN I(2) ELSE I(1))
    IN  XY(IF Includes(dir, "e") \/ Includes(dir, "w")
           THEN clamp(IF Includes(dir, "w") THEN Sub(c.size.x, step)
                      ELSE Add(c.size.x, step),
                      min.x, mapped.x)
           ELSE c.size.x,
           IF Includes(dir, "n") \/ Includes(dir, "s")
           THEN clamp(IF Includes(dir, "n") THEN Sub(c.size.y, step)
                      ELSE Add(c.size.y, step),
                      min.y, mapped.y)
           ELSE c.size.y)

\* The mapped delta of a keyboard move.
KeyMoveDelta(scaleFactors, event) ==
    LET dir == KEY_MAPPINGS[event.key]
        moveDelta == MoveDelta(event)
    IN  XY(Div(I(IF Includes(dir, "e") THEN moveDelta
                 ELSE IF Includes(dir, "w") THEN -moveDelta ELSE 0),
               scaleFactors.x),
           Div(I(IF Includes(dir, "s") THEN moveDelta
                 ELSE IF Includes(dir, "n") THEN -moveDelta ELSE 0),
               scaleFactors.y))

\* The box the keyboard frame callback commits.
KeyTarget(c, min, mapped, scaleFactors, event) ==
    LET box == BoxFrom(c.position, c.size)
        origin == IF event.alt THEN ORIGIN_CENTER ELSE XYI(0, 0)
        size == KeyResizeSize(c, min, mapped, event)
        d == KeyMoveDelta(scaleFactors, event)
        changed == IF event.mod
                   THEN resize(box, size.x, size.y, origin)
                   ELSE move(box,
                            clamp(Add(box.x, d.x), I(0), Sub(mapped.x, box.width)),
                            clamp(Add(box.y, d.y), I(0), Sub(mapped.y, box.height)))
    IN  toBounds(constrainToBoundary(changed, mapped.x, mapped.y, origin))

\* the frame callback of handleKeyDown runs
keyFrame ==
    /\ mounted
    /\ FrameCallbacks # <<>>
    /\ FrameCallbacks[1].kind = "key"
    /\ frameQueue' = Tail(FrameCallbacks)
    /\ LET event == FrameCallbacks[1]
       IN  /\ CommitTo(KeyTarget(crop, minSize, mappedSize,
                                 containerToMappedSizeScale, event),
                       inputs, FrameRequests, <<>>)
           /\ run' = IF run.ev = event
                     THEN [run EXCEPT !.n = run.n + 1]
                     ELSE [n |-> 1, start |-> crop, ev |-> event]
           /\ last' = [Last(IF event.mod THEN "keyResize" ELSE "keyMove", TRUE,
                            KeyMoveDelta(containerToMappedSizeScale, event),
                            KeyResizeSize(crop, minSize, mappedSize, event),
                            KEY_MAPPINGS[event.key], event.alt, <<>>)
                         EXCEPT !.ev = event]
    /\ pressedKeys' = {}
    /\ keyed' = [downs |-> <<>>, handled |-> keyed.downs]
    /\ lastKeyHandleFrame' = FALSE
    /\ UNCHANGED <<upload, props, env, containerSize, mounted, snapToRatioEnabled, snappedRatio,
                   dragging, gestureState, dragClosure, resizeClosure,
                   hapticRequests, trackpadTimers, recordingBoxPosition,
                   positionChangeTimeout, posTimers, advised, touches, mouseDown, budget>>

\* ------------------------------------------------------------------------
\* Manual numeric entry
\* ------------------------------------------------------------------------

\* target.value of input events
EntryTexts ==
    {<<"7">>, <<"3", "0", "0">>, <<"5", "0", "0", "0">>, <<"a", "b">>, <<"-", "3">>}

\* The smallest size handleSizeXChange and handleSizeYChange apply.
MinEntrySize == 50

EntryUnchanged ==
    <<upload, keyed, props, env, containerSize, mounted, snapToRatioEnabled, snappedRatio,
      dragging, gestureState, pressedKeys, lastKeyHandleFrame, dragClosure,
      resizeClosure,
      hapticRequests, frameQueue, trackpadTimers, recordingBoxPosition,
      positionChangeTimeout, posTimers, advised, touches, mouseDown>>

handleSizeXChange ==
    /\ CanHandle
    /\ \E text \in EntryTexts :
        LET value == parseInt(text)
            inp == [inputs EXCEPT !.sizeX = text]
            applies == ~IsNaN(value) /\ Ge(value, I(MinEntrySize))
        IN  /\ IF applies
               THEN setCrop([size |-> XY(value, crop.size.y),
                             position |-> crop.position], inp, rafQueue, <<>>)
               ELSE NoCommit(inp, rafQueue)
            /\ last' = Last("sizeX", applies, NoXY, XY(value, crop.size.y), "n",
                            FALSE, text)
    /\ budget' = budget - 1
    /\ UNCHANGED EntryUnchanged

handleSizeYChange ==
    /\ CanHandle
    /\ \E text \in EntryTexts :
        LET value == parseInt(text)
            inp == [inputs EXCEPT !.sizeY = text]
            applies == ~IsNaN(value) /\ Ge(value, I(MinEntrySize))
        IN  /\ IF applies
               THEN setCrop([size |-> XY(crop.size.x, value),
                             position |-> crop.position], inp, rafQueue, <<>>)
               ELSE NoCommit(inp, rafQueue)
            /\ last' = Last("sizeY", applies, NoXY, XY(crop.size.x, value), "n",
                            FALSE, text)
    /\ budget' = budget - 1
    /\ UNCHANGED EntryUnchanged

handlePositionChange ==
    /\ CanHandle
    /\ \E text \in EntryTexts, axis \in {"x", "y"} :
        LET value == parseInt(text)
            inp == IF axis = "x" THEN [inputs EXCEPT !.posX = text]
                   ELSE [inputs EXCEPT !.posY = text]
            applies == ~IsNaN(value) /\ Ge(value, I(0))
        IN  /\ IF applies
               THEN setCrop([size |-> crop.size,
                             position |-> XY(IF axis = "x" THEN value
                                             ELSE crop.position.x,
                                             IF axis = "y" THEN value
                                             ELSE crop.position.y)],
                            inp, rafQueue, <<>>)
               ELSE NoCommit(inp, rafQueue)
            /\ last' = Last(IF axis = "x" THEN "posX" ELSE "posY", applies,
                            XY(value, value), NoXY, "n", FALSE, text)
    /\ budget' = budget - 1
    /\ UNCHANGED EntryUnchanged

\* ------------------------------------------------------------------------
\* Container, window, settings and props
\* ------------------------------------------------------------------------

\* ResizeObserver: updateContainerSize; displayScaledCrop changes and its
\* effect requests an advisor frame.
updateContainerSize ==
    /\ CanHandle
    /\ \E size \in ContainerSizes :
        /\ size # containerSize
        /\ containerSize' = size
    /\ rafQueue' = RequestAdvisorFrame(rafQueue)
    /\ budget' = budget - 1
    /\ last' = Last("containerResize", FALSE, NoXY, NoXY, "n", FALSE, <<>>)
    /\ UNCHANGED <<upload, keyed, props, env, crop, run, mounted, snapToRatioEnabled, snappedRatio, dragging,
                   gestureState, pressedKeys, lastKeyHandleFrame, dragClosure,
                   resizeClosure, hapticRequests, frameQueue, trackpadTimers,
                   recordingBoxPosition, positionChangeTimeout, posTimers, advised, inputs,
                   touches, mouseDown>>

\* window "resize": handleResize
handleResize ==
    /\ CanHandle
    /\ Advise(crop, dragging)
    /\ budget' = budget - 1
    /\ last' = Last("windowResize", FALSE, NoXY, NoXY, "n", FALSE, <<>>)
    /\ UNCHANGED <<upload, keyed, props, env, crop, run, containerSize, mounted, snapToRatioEnabled,
                   snappedRatio, dragging, gestureState, pressedKeys,
                   lastKeyHandleFrame, dragClosure, resizeClosure, hapticRequests,
                   rafQueue, frameQueue, trackpadTimers, recordingBoxPosition,
                   inputs, touches, mouseDown>>

\* the context-menu item "Snap to aspect ratios"
toggleSnapToRatio ==
    /\ CanHandle
    /\ snapToRatioEnabled' = ~snapToRatioEnabled
    /\ budget' = budget - 1
    /\ last' = Last("toggleSnap", FALSE, NoXY, NoXY, "n", FALSE, <<>>)
    /\ UNCHANGED <<upload, keyed, props, env, crop, run, containerSize, mounted, snappedRatio, dragging,
                   gestureState, pressedKeys, lastKeyHandleFrame, dragClosure,
                   resizeClosure, hapticRequests, rafQueue, frameQueue,
                   trackpadTimers, recordingBoxPosition, positionChangeTimeout,
                   posTimers, advised, inputs, touches, mouseDown>>

\* props.aspectRatio changes: the effect on it builds a constrained Box that
\* it does not commit, schedules the trackpad timer and clears the snap.
aspectRatioEffect ==
    /\ CanHandle
    /\ \E ratio \in AspectRatios :
        /\ ratio # props.aspectRatio
        /\ props' = [props EXCEPT !.aspectRatio = ratio]
        /\ IF Truthy(ratio)
           THEN /\ trackpadTimers' = Append(trackpadTimers, "effect")
                /\ snappedRatio' = NULL
           ELSE UNCHANGED <<trackpadTimers, snappedRatio>>
    /\ budget' = budget - 1
    /\ last' = Last("aspectRatio", FALSE, NoXY, NoXY, "n", FALSE, <<>>)
    /\ UNCHANGED <<upload, keyed, env, crop, run, containerSize, mounted, snapToRatioEnabled, dragging,
                   gestureState, pressedKeys, lastKeyHandleFrame, dragClosure,
                   resizeClosure, hapticRequests, rafQueue, frameQueue,
                   recordingBoxPosition, positionChangeTimeout, posTimers, advised, inputs,
                   touches, mouseDown>>

\* ------------------------------------------------------------------------
\* Timers
\* ------------------------------------------------------------------------

\* setTimeout(() => setGestureState("isTrackpadGesture", false), 100) fires
trackpadTimeout ==
    /\ frameQueue = <<>>
    /\ trackpadTimers # <<>>
    /\ trackpadTimers' = Tail(trackpadTimers)
    /\ gestureState' = [gestureState EXCEPT !.isTrackpadGesture = FALSE]
    /\ UNCHANGED <<upload, keyed, props, env, crop, run, containerSize, mounted, snapToRatioEnabled,
                   snappedRatio, dragging, pressedKeys, lastKeyHandleFrame,
                   dragClosure, resizeClosure, hapticRequests, rafQueue, frameQueue,
                   recordingBoxPosition, positionChangeTimeout, posTimers, advised, inputs,
                   touches, mouseDown, budget, last>>

\* a placement timer fires: setRecordingBoxPosition
positionTimeout ==
    /\ frameQueue = <<>>
    /\ \E t \in posTimers :
        /\ recordingBoxPosition' = t.to
        /\ posTimers' = posTimers \ {t}
    /\ UNCHANGED <<upload, keyed, advised, props, env, crop, run, containerSize, mounted, snapToRatioEnabled,
                   snappedRatio, dragging, gestureState, pressedKeys,
                   lastKeyHandleFrame, dragClosure, resizeClosure, hapticRequests,
                   rafQueue, frameQueue, trackpadTimers, positionChangeTimeout,
                   inputs, touches, mouseDown, budget, last>>

\* ------------------------------------------------------------------------
\* Animation frames
\* ------------------------------------------------------------------------

\* requestAnimationFrame(updateRecordingBoxPosition) runs
advisorFrame ==
    /\ mounted
    /\ FrameCallbacks # <<>>
    /\ FrameCallbacks[1].kind = "advisor"
    /\ frameQueue' = Tail(FrameCallbacks)
    /\ rafQueue' = FrameRequests
    /\ Advise(crop, dragging)
    /\ UNCHANGED <<upload, keyed, props, env, crop, run, containerSize, mounted, snapToRatioEnabled,
                   snappedRatio, dragging, gestureState, pressedKeys,
                   lastKeyHandleFrame, dragClosure, resizeClosure, hapticRequests,
                   trackpadTimers, recordingBoxPosition, inputs, touches, mouseDown,
                   budget, last>>

Init == InitWith(Configs, PointerPoints, KeyEvents, MaxEvents)

Next ==
    \/ Mount
    \/ handleDragStart
    \/ handleDrag
    \/ handleMouseUp
    \/ handleWheel
    \/ handleTouchStart
    \/ handleTouchMove
    \/ handleTouchEnd
    \/ handleMouseDown
    \/ handleResizeStartTouch
    \/ resizeMouseMove
    \/ resizeFrame
    \/ handleKeyDown
    \/ keyFrame
    \/ handleSizeXChange
    \/ handleSizeYChange
    \/ handlePositionChange
    \/ updateContainerSize
    \/ handleResize
    \/ toggleSnapToRatio
    \/ aspectRatioEffect
    \/ trackpadTimeout
    \/ positionTimeout
    \/ advisorFrame

Spec == Init /\ [][Next]_vars

\* ------------------------------------------------------------------------
\* Gestures alone, from crops that satisfy the invariants
\* ------------------------------------------------------------------------

\* size >= min and the box inside [0, mapped.x] x [0, mapped.y]
SatisfiesInvariants(c, min, mapped) ==
    /\ Ge(c.size.x, min.x)
    /\ Ge(c.size.y, min.y)
    /\ Ge(c.position.x, I(0))
    /\ Ge(c.position.y, I(0))
    /\ Le(Add(c.position.x, c.size.x), mapped.x)
    /\ Le(Add(c.position.y, c.size.y), mapped.y)

\* The configurations whose crop satisfies the invariants in a container
\* that has a size.
ValidConfigs ==
    {c \in Configs :
        /\ Gt(c.client.x, I(0))
        /\ Gt(c.client.y, I(0))
        /\ SatisfiesInvariants(c.value, minSizeOf(mappedSizeOf(c.props, c.client)),
                               mappedSizeOf(c.props, c.client))}

InitGestures == InitWith(ValidConfigs, PointerPoints, KeyEvents, MaxEvents)

NextGestures ==
    \/ Mount
    \/ handleDragStart
    \/ handleDrag
    \/ handleMouseUp
    \/ handleWheel
    \/ handleTouchStart
    \/ handleTouchMove
    \/ handleTouchEnd
    \/ handleMouseDown
    \/ handleResizeStartTouch
    \/ resizeMouseMove
    \/ resizeFrame
    \/ handleKeyDown
    \/ keyFrame
    \/ trackpadTimeout
    \/ positionTimeout
    \/ advisorFrame

SpecGestures == InitGestures /\ [][NextGestures]_vars

GestureCommits ==
    {"drag", "wheelPan", "wheelScale", "pinch", "touchDrag", "resize",
     "keyResize", "keyMove"}

\* C1: from a crop that satisfies the invariants, the box committed by any
\* pointer-drag, wheel, touch, pointer-resize or keyboard event has
\* size >= minSize on both axes and lies inside [0, mapped.x] x [0, mapped.y].
C1_CommittedBoxSatisfiesInvariants ==
    (last.committed /\ last.kind \in GestureCommits)
        => SatisfiesInvariants(crop, minSize, mappedSize)

\* The boundary did not clamp the last resize: the requested size is below
\* the mapped size and constrainToBoundary left the resized box as it was.
NoBoundaryClamping ==
    LET origin == IF last.center THEN ORIGIN_CENTER
                  ELSE IF last.kind = "resize" THEN ResizeOrigin(last.dir)
                  ELSE XYI(0, 0)
        before == IF last.kind = "resize" THEN last.prebox
                  ELSE BoxFrom(last.pre.position, last.pre.size)
    IN  /\ Lt(last.asked.x, last.mapped.x)
        /\ Lt(last.asked.y, last.mapped.y)
        /\ crop = toBounds(resize(before, last.asked.x, last.asked.y, origin))

RatioTolerance == R(1, 1000000)

\* C2: with a fixed aspectRatio r and no boundary clamping, the box committed
\* by a pointer resize or a keyboard resize has |size.x / size.y - r| < 1e-6.
C2_ResizeKeepsFixedRatio ==
    (/\ Truthy(props.aspectRatio)
     /\ last.committed
     /\ last.kind \in {"resize", "keyResize"}
     /\ NoBoundaryClamping)
        => Lt(MathAbs(Sub(Div(crop.size.x, crop.size.y), props.aspectRatio)),
              RatioTolerance)

\* ------------------------------------------------------------------------
\* Degenerate input
\* ------------------------------------------------------------------------

FiniteCrop(c) ==
    /\ IsFinite(c.position.x)
    /\ IsFinite(c.position.y)
    /\ IsFinite(c.size.x)
    /\ IsFinite(c.size.y)

\* The last event computed a delta or a pinch scale that is not finite.
NonFiniteEvent ==
    \/ /\ last.kind \in {"drag", "wheelPan", "touchDrag", "pinch", "resize", "keyMove"}
       /\ ~IsFinite(last.delta.x) \/ ~IsFinite(last.delta.y)
    \/ /\ last.kind = "pinch"
       /\ ~IsFinite(last.req.x)

\* C8: an event whose delta or scale is not finite is discarded (no commit,
\* the crop as it was), and no commit carries a component that is not finite.
C8_NonFiniteEventsDiscarded ==
    /\ NonFiniteEvent => (~last.committed /\ crop = last.pre)
    /\ last.committed => FiniteCrop(crop)

\* n clamped into [lo, hi]
ClampedInto(n, lo, hi) == MathMax(lo, MathMin(hi, n))

\* C9: a requested size below the minimum or above the mapped size is
\* clamped into [minSize, mappedSize] and committed, on every input path:
\* manual entry of the width or the height, pointer resize, keyboard resize
\* and ctrl+wheel.
C9_RequestedSizeClamped ==
    /\ (last.kind = "sizeX" /\ IsFinite(last.req.x))
           => /\ last.committed
              /\ crop.size.x = ClampedInto(last.req.x, minSize.x, mappedSize.x)
    /\ (last.kind = "sizeY" /\ IsFinite(last.req.y))
           => /\ last.committed
              /\ crop.size.y = ClampedInto(last.req.y, minSize.y, mappedSize.y)
    /\ (/\ last.kind \in {"resize", "keyResize", "wheelScale"}
        /\ SatisfiesInvariants(last.pre, minSize, mappedSize)
        /\ IsFinite(last.req.x)
        /\ IsFinite(last.req.y))
           => /\ last.committed
              /\ Ge(crop.size.x, minSize.x) /\ Le(crop.size.x, mappedSize.x)
              /\ Ge(crop.size.y, minSize.y) /\ Le(crop.size.y, mappedSize.y)

EntryKinds == {"sizeX", "sizeY", "posX", "posY"}

\* C10: a manual entry whose text does not parse to a number updates the
\* displayed text and commits nothing; a later entry in that field that
\* parses to a number is committed.
C10_MalformedEntryIgnoredUntilNumber ==
    /\ (last.kind \in EntryKinds /\ IsNaN(parseInt(last.text)))
           => /\ inputs[last.kind] = last.text
              /\ ~last.committed
              /\ crop = last.pre
    /\ (/\ last.kind \in EntryKinds
        /\ IsNaN(parseInt(last.shown[last.kind]))
        /\ ~IsNaN(parseInt(last.text)))
           => last.committed

\* ------------------------------------------------------------------------
\* Pointer drags alone
\* ------------------------------------------------------------------------

MaxDragEvents == 4

DragConfigs ==
    {Config(Props(Some(XYI(1000, 1000)), I(0), None), Crop(0, 0, 500, 500),
            XYI(1000, 1000), TRUE),
     Config(Props(Some(XYI(1000, 1000)), I(0), None), Crop(600, 0, 300, 300),
            XYI(500, 500), FALSE),
     Config(Props(None, I(0), None), Crop(100, 150, 300, 200),
            XYI(500, 500), FALSE)}

InitDrag == InitWith(DragConfigs, PointerPoints, KeyEvents, MaxDragEvents)

NextDrag ==
    \/ Mount
    \/ handleDragStart
    \/ handleDrag
    \/ handleMouseUp
    \/ positionTimeout
    \/ advisorFrame

SpecDrag == InitDrag /\ [][NextDrag]_vars

\* C6: a pointer-drag move with mapped delta (dx, dy) commits the position
\* (clamp(x + dx, 0, mapped.x - width), clamp(y + dy, 0, mapped.y - height))
\* and the size it found.
C6_DragCommitsClampedPosition ==
    last.kind = "drag" =>
        /\ last.committed
        /\ crop.size = last.pre.size
        /\ crop.position.x =
               ClampedInto(Add(last.pre.position.x, last.delta.x), I(0),
                           Sub(mappedSize.x, last.pre.size.x))
        /\ crop.position.y =
               ClampedInto(Add(last.pre.position.y, last.delta.y), I(0),
                           Sub(mappedSize.y, last.pre.size.y))

\* The drag of the example: mapped 1000x1000, scale 1, crop (0,0) 500x500
\* dragged by (+700, 0) is committed at (500,0) 500x500.
C6_DragExampleReached ==
    /\ last.kind = "drag"
    /\ mappedSize = XYI(1000, 1000)
    /\ containerToMappedSizeScale = XYI(1, 1)
    /\ last.pre = Crop(0, 0, 500, 500)
    /\ last.delta = XYI(700, 0)
    /\ crop = Crop(500, 0, 500, 500)

\* ------------------------------------------------------------------------
\* Pointer resizes alone
\* ------------------------------------------------------------------------

MaxResizeEvents == 3

ResizeConfigs ==
    {Config(Props(Some(XYI(1000, 1000)), I(0), None), Crop(0, 0, 500, 500),
            XYI(1000, 1000), TRUE),
     Config(Props(Some(XYI(1000, 1000)), I(0), None), Crop(600, 0, 300, 300),
            XYI(500, 500), FALSE),
     Config(Props(Some(XYI(1000, 1000)), I(0), None), Crop(400, 300, 200, 200),
            XYI(1000, 1000), FALSE)}

\* Mouse positions that push a box over the boundary and under the minimum.
ResizePoints == {XYI(700, 0), XYI(-150, -67)}

\* From the 'se' handle of a 500x500 box at scale 1 these ask for 400x300,
\* 401x300, 420x300 and 300x400.
SnapPoints == {XYI(-100, -200), XYI(-99, -200), XYI(-80, -200), XYI(-200, -100)}

InitResize ==
    InitWith(ResizeConfigs, ResizePoints \cup SnapPoints, KeyEvents, MaxResizeEvents)

NextResize ==
    \/ Mount
    \/ handleMouseDown
    \/ handleResizeStartTouch
    \/ resizeMouseMove
    \/ handleTouchMove
    \/ handleTouchEnd
    \/ handleMouseUp
    \/ resizeFrame
    \/ advisorFrame

SpecResize == InitResize /\ [][NextResize]_vars

\* The catalog ratios and their inverses.
CatalogRatios ==
    {COMMON_RATIOS[i] : i \in 1..Len(COMMON_RATIOS)}
        \cup {<<COMMON_RATIOS[i][2], COMMON_RATIOS[i][1]>> : i \in 1..Len(COMMON_RATIOS)}

\* The ratios of the catalog within the tolerance of width / height:
\* |width / height - a / b| < 1/100, that is 100 * |b * width - a * height|
\* < b * height.
RatiosWithinTolerance(width, height) ==
    {r \in CatalogRatios :
        Lt(Mul(I(100), MathAbs(Sub(Mul(I(r[2]), width), Mul(I(r[1]), height)))),
           Mul(I(r[2]), height))}

\* C3: with no fixed aspect ratio and snap enabled, the snap of a corner
\* resize is a function of the candidate width and height: the catalog ratio
\* (or inverse) within tolerance of the candidate's ratio if there is one,
\* else none; 400x300 and 401x300 give (4,3), 420x300 gives none.
C3_SnapIsFunctionOfCandidate ==
    (/\ last.kind = "resize"
     /\ DirLength(last.dir) = 2
     /\ snapToRatioEnabled
     /\ ~Truthy(props.aspectRatio)
     /\ IsFinite(last.req.x)
     /\ Gt(last.req.y, I(0)) /\ IsFinite(last.req.y))
        => /\ RatiosWithinTolerance(last.req.x, last.req.y) = {}
                  => snappedRatio = NULL
           /\ RatiosWithinTolerance(last.req.x, last.req.y) # {}
                  => snappedRatio \in RatiosWithinTolerance(last.req.x, last.req.y)
           /\ last.req = XYI(400, 300) => snappedRatio = <<4, 3>>
           /\ last.req = XYI(401, 300) => snappedRatio = <<4, 3>>
           /\ last.req = XYI(420, 300) => snappedRatio = NULL

\* A corner resize to the candidate 401x300 has snapped to (4,3).
C3_NearCandidateSnapped ==
    /\ last.kind = "resize"
    /\ last.dir = "se"
    /\ snapToRatioEnabled
    /\ last.req = XYI(401, 300)
    /\ snappedRatio = <<4, 3>>
    /\ crop.size = XYI(400, 300)

\* The mapped-space point of the box (x, y, width, height) opposite to the
\* handle dir: its right edge for handles with 'w', else its left edge; its
\* bottom edge for handles with 'n', else its top edge.
OppositePoint(x, y, width, height, dir) ==
    XY(IF Includes(dir, "w") THEN Add(x, width) ELSE x,
       IF Includes(dir, "n") THEN Add(y, height) ELSE y)

\* The box of the size handed to the Box, laid out from the opposite point
\* of the box before the move, lies inside [0, mapped.x] x [0, mapped.y].
RequestFitsFromOppositePoint ==
    LET b == last.prebox
        a == OppositePoint(b.x, b.y, b.width, b.height, last.dir)
        left == IF Includes(last.dir, "w") THEN Sub(a.x, last.asked.x) ELSE a.x
        top == IF Includes(last.dir, "n") THEN Sub(a.y, last.asked.y) ELSE a.y
    IN  /\ Ge(left, I(0))
        /\ Ge(top, I(0))
        /\ Le(Add(left, last.asked.x), last.mapped.x)
        /\ Le(Add(top, last.asked.y), last.mapped.y)

\* The committed box and the box before the move have the same opposite point.
OppositePointKept ==
    OppositePoint(crop.position.x, crop.position.y, crop.size.x, crop.size.y,
                  last.dir)
        = OppositePoint(last.prebox.x, last.prebox.y, last.prebox.width,
                        last.prebox.height, last.dir)

MaxKeyEvents == 10

KeyConfigs ==
    {Config(Props(Some(XYI(1000, 1000)), I(0), None), Crop(0, 0, 500, 500),
            XYI(1000, 1000), FALSE),
     Config(Props(Some(XYI(1000, 1000)), I(0), None), Crop(100, 200, 120, 500),
            XYI(500, 500), FALSE)}

\* ctrl/meta + ArrowLeft: the width shrinks by the default step
ShrinkWidthKey == Request("key", NoXY, 0, "ArrowLeft", FALSE, FALSE, TRUE)

\* ArrowUp: a move
MoveUpKey == Request("key", NoXY, 0, "ArrowUp", FALSE, FALSE, FALSE)

InitKeys ==
    InitWith(KeyConfigs, PointerPoints, {ShrinkWidthKey, MoveUpKey}, MaxKeyEvents)

NextKeys ==
    \/ Mount
    \/ handleKeyDown
    \/ keyFrame
    \/ advisorFrame

SpecKeys == InitKeys /\ [][NextKeys]_vars

\* The default step of a keyboard resize.
DefaultStep == 5

\* C7: after N consecutive frames of ctrl/meta + ArrowLeft, the width is the
\* width before them less 5 * N, or the minimum width once that is reached,
\* and the height and the position are as before them.
C7_ShrinkByFivePerFrame ==
    (run.n >= 1 /\ run.ev = ShrinkWidthKey)
        => /\ crop.size.x =
                  MathMax(minSize.x, Sub(run.start.size.x, I(DefaultStep * run.n)))
           /\ crop.size.y = run.start.size.y
           /\ crop.position = run.start.position

\* Ten such frames have taken the width from 500 to 450 at height 500.
C7_TenStepsFrom500 ==
    /\ run.n = 10
    /\ run.ev = ShrinkWidthKey
    /\ run.start.size = XYI(500, 500)
    /\ crop.size = XYI(450, 500)

\* ------------------------------------------------------------------------
\* Mount alone, on crops inside, across and outside the boundary
\* ------------------------------------------------------------------------

MountPositions == {-100, 0, 300, 900}

MountSizes == {100, 500, 1200}

MountConfigs ==
    {Config(Props(Some(XYI(1000, 1000)), I(0), None), Crop(x, y, w, h),
            XYI(1000, 1000), FALSE) :
        x \in MountPositions, y \in MountPositions, w \in MountSizes, h \in MountSizes}

InitMount == InitWith(MountConfigs, PointerPoints, KeyEvents, 0)

NextMount ==
    \/ Mount
    \/ positionTimeout
    \/ advisorFrame

SpecMount == InitMount /\ [][NextMount]_vars

Origins == {XY(ox, oy) : ox \in {I(0), R(1, 2), I(1)}, oy \in {I(0), R(1, 2), I(1)}}

\* The box lies inside [0, mapped.x] x [0, mapped.y].
InsideBoundary(c, mapped) ==
    /\ Ge(c.position.x, I(0))
    /\ Ge(c.position.y, I(0))
    /\ Le(Add(c.position.x, c.size.x), mapped.x)
    /\ Le(Add(c.position.y, c.size.y), mapped.y)

\* onMount found a crop with a size and validated it.
MountValidated ==
    /\ last.kind = "mount"
    /\ Gt(last.pre.size.x, I(0))
    /\ Gt(last.pre.size.y, I(0))

\* C5: constrainToBoundary applied twice, with any origin, gives what it
\* gives applied once, on the crop onMount found and on the crop it left;
\* and the validation on mount of a crop inside the boundary commits nothing.
C5_BoundaryClampIdempotent ==
    MountValidated =>
        /\ \A o \in Origins :
               LET once == constrainToBoundary(
                               BoxFrom(last.pre.position, last.pre.size),
                               last.mapped.x, last.mapped.y, o)
               IN  constrainToBoundary(once, last.mapped.x, last.mapped.y, o) = once
        /\ \A o \in Origins :
               constrainToBoundary(BoxFrom(crop.position, crop.size),
                                   last.mapped.x, last.mapped.y, o)
                   = BoxFrom(crop.position, crop.size)
        /\ InsideBoundary(last.pre, last.mapped)
               => (~last.committed /\ crop = last.pre)

\* onMount has validated a crop inside the boundary without a commit.
C5_InsideCropValidatedWithoutCommit ==
    /\ MountValidated
    /\ InsideBoundary(last.pre, last.mapped)
    /\ last.pre = Crop(300, 0, 500, 100)
    /\ ~last.committed
    /\ crop = last.pre

\* ------------------------------------------------------------------------
\* The minSize option
\* ------------------------------------------------------------------------

\* Crops with the minSize option supplied above and below the computed
\* default of (100, 100): with no crop yet and an initial size between the
\* two, and with a crop that satisfies both minimums.
MinSizeConfigs ==
    {Config(WithMinSize(Props(Some(XYI(1000, 1000)), I(0), Some(XYI(150, 150))),
                        XYI(200, 200)),
            Crop(0, 0, 0, 0), XYI(1000, 1000), FALSE),
     Config(WithMinSize(Props(Some(XYI(1000, 1000)), I(0), Some(XYI(30, 30))),
                        XYI(20, 20)),
            Crop(0, 0, 0, 0), XYI(1000, 1000), FALSE),
     Config(WithMinSize(Props(Some(XYI(1000, 1000)), I(0), None), XYI(200, 200)),
            Crop(0, 0, 500, 500), XYI(1000, 1000), TRUE)}

InitMinSize == InitWith(MinSizeConfigs, PointerPoints, KeyEvents, MaxEvents)

SpecMinSize == InitMinSize /\ [][NextGestures]_vars

SizeClampCommits == {"wheelScale", "pinch", "resize", "keyResize"}

\* C11: with the minSize option supplied, the initial size is clamped to the
\* supplied minimum (not to min(100, 10% of the mapped dimension)), and no
\* wheel scale, pinch, pointer resize or keyboard resize commits a size below
\* the supplied minimum.
C11_SuppliedMinSizeEnforced ==
    props.minSize.some =>
        /\ (last.kind = "mount" /\ last.committed
                /\ ~(Gt(last.pre.size.x, I(0)) /\ Gt(last.pre.size.y, I(0))))
               => crop.size = XY(clamp(last.req.x, props.minSize.v.x, last.mapped.x),
                                 clamp(last.req.y, props.minSize.v.y, last.mapped.y))
        /\ (last.committed /\ last.kind \in SizeClampCommits)
               => /\ Ge(crop.size.x, props.minSize.v.x)
                  /\ Ge(crop.size.y, props.minSize.v.y)

\* ------------------------------------------------------------------------
\* Mount alone, with and without a crop and an initial size
\* ------------------------------------------------------------------------

SeedCrops ==
    {Crop(x, x, w, h) : x \in {0, 900}, w \in {0, 300}, h \in {0, 300}}
        \cup {Crop(0, 0, -5, 300)}

SeedInitialSizes ==
    {None, Some(XYI(30, 30)), Some(XYI(400, 2000)), Some(XYI(-10, 50))}

SeedConfigs ==
    {Config(Props(m[1], I(0), i), c, m[2], FALSE) :
        m \in {<<Some(XYI(1000, 1000)), XYI(1000, 1000)>>,
               <<Some(XYI(1000, 50)), XYI(500, 500)>>,
               <<None, XYI(500, 500)>>,
               <<None, XYI(0, 0)>>},
        i \in SeedInitialSizes, c \in SeedCrops}

InitSeed == InitWith(SeedConfigs, PointerPoints, KeyEvents, 0)

SpecSeed == InitSeed /\ [][NextMount]_vars

\* The crop onMount found has a positive size.
MountFoundCrop == Gt(last.pre.size.x, I(0)) /\ Gt(last.pre.size.y, I(0))

\* props.initialSize, or half the mapped size.
MountInitialSize ==
    IF props.initialSize.some THEN props.initialSize.v
    ELSE XY(Div(last.mapped.x, I(2)), Div(last.mapped.y, I(2)))

\* C12: on mount a crop with a positive size is only boundary-validated, and
\* committed only if that changes it; otherwise one commit is made of a box
\* of size clamp(initialSize or mapped/2, minSize, mapped) per axis, centred
\* in mapped space and inside the boundary. Nothing after the mount changes
\* the crop again.
C12_MountSeedsOnlyWithoutCrop ==
    last.kind = "mount" =>
        IF MountFoundCrop
        THEN /\ crop = toBounds(constrainToBoundary(
                            BoxFrom(last.pre.position, last.pre.size),
                            last.mapped.x, last.mapped.y, ORIGIN_CENTER))
             /\ last.committed <=> (crop # last.pre)
        ELSE /\ last.committed
             /\ crop.size.x = ClampedInto(MountInitialSize.x, minSize.x, mappedSize.x)
             /\ crop.size.y = ClampedInto(MountInitialSize.y, minSize.y, mappedSize.y)
             /\ Add(crop.position.x, Div(crop.size.x, I(2))) = Div(mappedSize.x, I(2))
             /\ Add(crop.position.y, Div(crop.size.y, I(2))) = Div(mappedSize.y, I(2))
             /\ InsideBoundary(crop, mappedSize)

\* onMount found no crop and seeded one from an initial size of (400, 2000)
\* in a mapped space of 1000 x 1000.
C12_SeededFromInitialSize ==
    /\ last.kind = "mount"
    /\ ~MountFoundCrop
    /\ props.initialSize = Some(XYI(400, 2000))
    /\ last.committed
    /\ crop = Crop(300, 0, 400, 1000)

\* ------------------------------------------------------------------------
\* Snapping: pointer resizes with the snap setting toggled and the wheel
\* ------------------------------------------------------------------------

MaxSnapEvents == 4

\* A 500x500 crop with haptics enabled and disabled.
SnapConfigs ==
    {Config(Props(Some(XYI(1000, 1000)), I(0), None), Crop(0, 0, 500, 500),
            XYI(1000, 1000), TRUE),
     Config(Props(Some(XYI(1000, 1000)), I(0), None), Crop(0, 0, 500, 500),
            XYI(1000, 1000), FALSE)}

\* From the 'se' handle of a 500x500 box at scale 1 these ask for 400x300
\* (4:3) and 440x300 (no catalog ratio).
SnapMovePoints == {XYI(-100, -200), XYI(-60, -200)}

InitSnap == InitWith(SnapConfigs, SnapMovePoints, KeyEvents, MaxSnapEvents)

NextSnap ==
    \/ Mount
    \/ handleMouseDown
    \/ resizeMouseMove
    \/ resizeFrame
    \/ handleMouseUp
    \/ handleWheel
    \/ toggleSnapToRatio
    \/ advisorFrame

SpecSnap == InitSnap /\ [][NextSnap]_vars

\* C13: while the snap setting is disabled the snapped ratio is null, and a
\* resize move made while it is disabled overrides no dimension, issues no
\* haptic request and does not scan the ratio catalog.
C13_DisabledSnapSkipped ==
    /\ ~snapToRatioEnabled => snappedRatio = NULL
    /\ (last.kind = "resize" /\ ~last.enabled)
           => /\ last.asked = last.req
              /\ snappedRatio = NULL
              /\ hapticRequests = last.haptics
              /\ ~last.scanned

\* The last handler issued a haptic request.
HapticIssued == hapticRequests = last.haptics + 1

\* The last resize move took the snapped ratio from null to a match while
\* haptics are enabled.
NewSnapMatch ==
    /\ last.kind = "resize"
    /\ last.snapped = NULL
    /\ snappedRatio # NULL
    /\ resizeClosure.hapticsEnabled

\* C14 as stated: a haptic request is issued exactly on a resize move that
\* takes the snapped ratio from null to a match while haptics are enabled,
\* and a request requires a resize move with no snap since the request
\* before it.
C14_HapticNeedsUnsnappedMove ==
    /\ HapticIssued <=> NewSnapMatch
    /\ HapticIssued \/ hapticRequests = last.haptics
    /\ HapticIssued => last.unsnappedWas

\* C14: a haptic request is issued exactly on a resize move that takes the
\* snapped ratio from null to a match while haptics are enabled; a move that
\* stays snapped issues none; a request requires that the snapped ratio was
\* null before the move (after a move with no snap, a ctrl+wheel event or a
\* change of the aspect ratio).
C14_HapticOnNewSnapOnly ==
    /\ HapticIssued <=> NewSnapMatch
    /\ HapticIssued \/ hapticRequests = last.haptics
    /\ (last.kind = "resize" /\ last.snapped # NULL) => ~HapticIssued

\* A resize move stayed snapped with haptics enabled and issued no request
\* after the request of the move before it.
C14_StayedSnappedWithoutRequest ==
    /\ last.kind = "resize"
    /\ resizeClosure.hapticsEnabled
    /\ last.snapped # NULL
    /\ snappedRatio # NULL
    /\ hapticRequests = 1
    /\ last.haptics = 1

\* ------------------------------------------------------------------------
\* Gesture ownership
\* ------------------------------------------------------------------------

\* A pointer drag or a pointer resize is between its start and its end.
PointerGestureActive == dragClosure.listening \/ resizeClosure.listening

\* C15: while a pointer drag or a pointer resize is active no wheel, keyboard
\* or touch event commits a mutation, and a drag and a resize are never
\* active together.
C15_OneGestureOwnsBox ==
    /\ (last.committed
            /\ last.kind \in {"wheelPan", "wheelScale", "keyResize", "keyMove",
                               "pinch", "touchDrag"})
           => ~PointerGestureActive
    /\ ~(dragClosure.listening /\ resizeClosure.listening)

\* ------------------------------------------------------------------------
\* A pointer resize with wheel and keyboard events between its moves
\* ------------------------------------------------------------------------

MaxMixedEvents == 3

MixedConfigs ==
    {Config(Props(Some(XYI(1000, 1000)), I(0), None), Crop(200, 200, 400, 400),
            XYI(1000, 1000), FALSE)}

MixedPoints == {XYI(50, 20)}

MixedKeys == {MoveUpKey, ShrinkWidthKey}

InitMixed == InitWith(MixedConfigs, MixedPoints, MixedKeys, MaxMixedEvents)

NextMixed ==
    \/ Mount
    \/ handleMouseDown
    \/ resizeMouseMove
    \/ resizeFrame
    \/ handleMouseUp
    \/ handleWheel
    \/ handleKeyDown
    \/ keyFrame
    \/ advisorFrame

SpecMixed == InitMixed /\ [][NextMixed]_vars

\* C16: a resize commit is computed from the crop current at the time of the
\* move: the Box the move starts from is the current crop, and a move of a
\* horizontal (vertical) edge of a crop inside the boundary leaves the
\* current vertical (horizontal) extent as another input committed it.
C16_ResizeBuildsOnCurrentCrop ==
    last.kind = "resize" =>
        /\ last.prebox = BoxFrom(last.pre.position, last.pre.size)
        /\ (last.dir \in {"e", "w"} /\ InsideBoundary(last.pre, last.mapped))
               => /\ crop.position.y = last.pre.position.y
                  /\ crop.size.y = last.pre.size.y
        /\ (last.dir \in {"n", "s"} /\ InsideBoundary(last.pre, last.mapped))
               => /\ crop.position.x = last.pre.position.x
                  /\ crop.size.x = last.pre.size.x

\* ------------------------------------------------------------------------
\* Snap tolerance: pointer resizes to candidates near catalog ratios
\* ------------------------------------------------------------------------

\* From the handles of a 500x500 box at scale 1 these ask for heights of
\* 248 (500:248 is 0.8% above 2:1), 250 (2:1), 300 and 375 (4:3), and for
\* 400x300 and 440x300.
TolerancePoints ==
    {XYI(0, -252), XYI(0, -250), XYI(-100, -200), XYI(-60, -200), XYI(0, -125)}

InitTolerance == InitWith({Config(Props(Some(XYI(1000, 1000)), I(0), None),
                     Crop(0, 0, 500, 500), XYI(1000, 1000), FALSE)},
             TolerancePoints, KeyEvents, MaxEvents)

NextPointerResize ==
    \/ Mount
    \/ handleMouseDown
    \/ resizeMouseMove
    \/ resizeFrame
    \/ handleMouseUp
    \/ advisorFrame

SpecTolerance == InitTolerance /\ [][NextPointerResize]_vars

\* |width / height - r| <= 0.01 * r
WithinRelativeTolerance(width, height, r) ==
    Le(MathAbs(Sub(Div(width, height), R(r[1], r[2]))),
       Mul(R(1, 100), R(r[1], r[2])))

\* C17: on the candidate of a resize move, findClosestRatio reports a match
\* exactly when width / height is within 1% (relative) of a catalog ratio or
\* its inverse, and the ratio it reports is the nearest such entry.
C17_MatchWithinRelativeTolerance ==
    (last.kind = "resize" /\ ~Truthy(props.aspectRatio)) =>
        LET closest == findClosestRatio(props.aspectRatio, last.req.x, last.req.y)
            near == {r \in CatalogRatios :
                        WithinRelativeTolerance(last.req.x, last.req.y, r)}
            off(r) == MathAbs(Sub(Div(last.req.x, last.req.y), R(r[1], r[2])))
        IN  /\ closest # NULL <=> near # {}
            /\ closest # NULL
                   => /\ closest \in near
                      /\ \A r \in near : Le(off(closest), off(r))

\* ------------------------------------------------------------------------
\* Every input after a snapped corner resize
\* ------------------------------------------------------------------------

MaxSnapScopeEvents == 3

\* From the handles of a 500x500 box at scale 1: (-100, -200) asks for
\* 400x300 from 'se', 500x300 from 's' and 400x500 from 'e'; (0, -125) asks
\* for 500x375 (4:3) from 's'.
SnapScopePoints == {XYI(-100, -200), XYI(0, -125)}

InitSnapScope ==
    InitWith({Config(Props(Some(XYI(1000, 1000)), I(0), None),
                     Crop(0, 0, 500, 500), XYI(1000, 1000), TRUE)},
             SnapScopePoints, {MoveUpKey}, MaxSnapScopeEvents)

NextSnapScope ==
    \/ Mount
    \/ handleDragStart
    \/ handleDrag
    \/ handleMouseUp
    \/ handleWheel
    \/ handleTouchStart
    \/ handleTouchMove
    \/ handleTouchEnd
    \/ handleMouseDown
    \/ handleResizeStartTouch
    \/ resizeMouseMove
    \/ resizeFrame
    \/ handleKeyDown
    \/ keyFrame
    \/ toggleSnapToRatio
    \/ aspectRatioEffect
    \/ trackpadTimeout
    \/ advisorFrame

SpecSnapScope == InitSnapScope /\ [][NextSnapScope]_vars

\* C18: a snap override and a non-null snapped ratio come only from a corner
\* pointer resize made with snap enabled and no fixed aspect ratio; no other
\* handler sets a snapped ratio, and with a fixed aspect ratio configured the
\* snapped ratio is null.
C18_SnapOnlyOnCornerResize ==
    /\ (last.kind = "resize" /\ (snappedRatio # NULL \/ last.asked # last.req))
           => /\ DirLength(last.dir) = 2
              /\ last.enabled
              /\ ~Truthy(props.aspectRatio)
    /\ last.kind # "resize" => (snappedRatio = NULL \/ snappedRatio = last.snapped)
    /\ Truthy(props.aspectRatio) => snappedRatio = NULL

\* An edge resize to 500x375 (4:3) with snap enabled has not snapped.
C18_EdgeResizeNotSnapped ==
    /\ last.kind = "resize"
    /\ last.dir = "s"
    /\ last.enabled
    /\ last.req = XYI(500, 375)
    /\ findClosestRatio(props.aspectRatio, last.req.x, last.req.y) = <<4, 3>>
    /\ snappedRatio = NULL
    /\ crop.size = XYI(500, 375)

\* ------------------------------------------------------------------------
\* Key repeat
\* ------------------------------------------------------------------------

\* The frame callbacks of handleKeyDown that have not run yet.
KeyRequestsWaiting ==
    Cardinality({i \in 1..Len(rafQueue) : rafQueue[i].kind = "key"})
        + Cardinality({i \in 1..Len(frameQueue) : frameQueue[i].kind = "key"})

\* C19: however many arrow keydowns arrive before a frame, at most one
\* keyboard callback waits for it (so the frame commits at most one keyboard
\* mutation); the handle is set exactly while one waits; and once the
\* callback has committed, the pressed keys are empty and the handle is
\* cleared, so that the next keydown requests a frame again.
C19_OneKeyMutationPerFrame ==
    /\ KeyRequestsWaiting <= 1
    /\ lastKeyHandleFrame <=> KeyRequestsWaiting = 1
    /\ pressedKeys # {} => lastKeyHandleFrame
    /\ last.kind \in {"keyResize", "keyMove"}
           => /\ pressedKeys = {}
              /\ ~lastKeyHandleFrame
              /\ KeyRequestsWaiting = 0

\* Two keydowns arrived before the frame and the frame committed one move
\* up: the crop (100, 200) 120x500 at scale 1/2 is at (100, 190).
C19_TwoKeyDownsOneMove ==
    /\ last.kind = "keyMove"
    /\ budget = MaxKeyEvents - 2
    /\ crop = Crop(100, 190, 120, 500)
    /\ pressedKeys = {}
    /\ ~lastKeyHandleFrame

\* ------------------------------------------------------------------------
\* The trackpad-gesture flag
\* ------------------------------------------------------------------------

MaxWheelEvents == 3

InitWheel ==
    InitWith({Config(Props(Some(XYI(1000, 1000)), I(0), None),
                     Crop(200, 200, 400, 400), XYI(1000, 1000), FALSE)},
             PointerPoints, KeyEvents, MaxWheelEvents)

NextWheel ==
    \/ Mount
    \/ handleWheel
    \/ handleDragStart
    \/ handleMouseUp
    \/ trackpadTimeout
    \/ positionTimeout
    \/ advisorFrame

SpecWheel == InitWheel /\ [][NextWheel]_vars

\* Less than 100 ms have passed since the last ctrl+wheel event: its timer
\* is pending. Timers of one delay fire in the order they were set, so the
\* last ctrl+wheel timer is pending when any ctrl+wheel timer is.
WithinInactivityWindow ==
    \E i \in 1..Len(trackpadTimers) : trackpadTimers[i] = "wheel"

\* C20: the trackpad-gesture flag stays true until 100 ms have passed with
\* no ctrl+wheel event, and is false from then on until the next one.
C20_FlagClearedAfterInactivity ==
    mounted => (gestureState.isTrackpadGesture <=> WithinInactivityWindow)

\* ------------------------------------------------------------------------
\* Drag start after ctrl+wheel events
\* ------------------------------------------------------------------------

NextDragStart ==
    \/ Mount
    \/ handleWheel
    \/ handleDragStart
    \/ handleDrag
    \/ handleMouseUp
    \/ trackpadTimeout
    \/ positionTimeout
    \/ advisorFrame

SpecDragStart == InitWheel /\ [][NextDragStart]_vars

\* C21: a mousedown on the crop area with the trackpad-gesture flag set or
\* on an input element starts no drag (dragging false, no listeners, and so
\* no drag commit); any other mousedown on the crop area starts one.
C21_DragStartSuppressed ==
    /\ last.kind = "dragStart" =>
           IF last.trackpad \/ last.center
           THEN ~dragging /\ ~dragClosure.listening /\ crop = last.pre
           ELSE dragging /\ dragClosure.listening
    /\ last.kind = "drag" => (dragging /\ dragClosure.listening)

\* A mousedown on the crop area itself, with the trackpad-gesture flag set,
\* has started no drag.
C21_MouseDownDuringTrackpadGesture ==
    /\ last.kind = "dragStart"
    /\ last.trackpad
    /\ ~last.center
    /\ mouseDown
    /\ ~dragging
    /\ ~dragClosure.listening

\* C22: the factor a ctrl+wheel event multiplies the width and the height by
\* (the requested size over the size before the event) is strictly positive.
C22_WheelScalePositive ==
    (last.kind = "wheelScale" /\ Gt(last.pre.size.x, I(0)) /\ Gt(last.pre.size.y, I(0)))
        => /\ Gt(Div(last.req.x, last.pre.size.x), I(0))
           /\ Gt(Div(last.req.y, last.pre.size.y), I(0))


\* ---- The placement advisor around its thresholds ----

MaxAdvisorEvents == 3

\* Crops whose free space above and below adds up to 400 and to 300 display
\* pixels in a 1000 x 1000 container at scale 1.
AdvisorConfigs ==
    {Config(Props(Some(XYI(1000, 1000)), I(0), None), Crop(200, 300, 400, 600),
            XYI(1000, 1000), FALSE),
     Config(Props(Some(XYI(1000, 1000)), I(0), None), Crop(200, 150, 400, 700),
            XYI(1000, 1000), FALSE)}

AdvisorPoints ==
    {XYI(0, 0), XYI(0, -110), XYI(0, -105), XYI(0, -100), XYI(0, -95),
     XYI(0, -200), XYI(0, -40), XYI(0, -10), XYI(0, 10), XYI(0, 40)}

InitAdvisor == InitWith(AdvisorConfigs, AdvisorPoints, KeyEvents, MaxAdvisorEvents)

NextAdvisor ==
    \/ Mount
    \/ handleDragStart
    \/ handleDrag
    \/ handleMouseUp
    \/ handleResize
    \/ positionTimeout
    \/ advisorFrame

SpecAdvisor == InitAdvisor /\ [][NextAdvisor]_vars

PanelHeight == I(RecordingBoxHeight)

C24_TopToBottomRule ==
    (advised.ran /\ advised.position = "top")
        => /\ advised.to \in {"bottom", "none"}
           /\ (advised.to = "bottom")
                <=> \/ /\ Lt(advised.topSpace, Add(PanelHeight, I(40)))
                       /\ \/ Ge(advised.bottomSpace, Add(PanelHeight, I(40)))
                          \/ Gt(advised.bottomSpace, advised.topSpace)
                    \/ /\ Ge(advised.topSpace, Add(PanelHeight, I(40)))
                       /\ Gt(advised.bottomSpace, Add(PanelHeight, I(50)))

\* The panel at the top with room above and between panelHeight + 40 and
\* panelHeight + 50 below: it stays.
C24_StaysInsideMargin ==
    /\ advised.ran
    /\ advised.position = "top"
    /\ Ge(advised.topSpace, Add(PanelHeight, I(40)))
    /\ Gt(advised.bottomSpace, Add(PanelHeight, I(40)))
    /\ Le(advised.bottomSpace, Add(PanelHeight, I(50)))
    /\ advised.to = "none"



\* ---- The placement advisor during drags and pointer resizes ----

NextPlacement ==
    \/ Mount
    \/ handleDragStart
    \/ handleDrag
    \/ handleMouseDown
    \/ resizeMouseMove
    \/ resizeFrame
    \/ handleMouseUp
    \/ positionTimeout
    \/ advisorFrame

SpecPlacement == InitAdvisor /\ [][NextPlacement]_vars

\* C25: a placement switch scheduled by the evaluation of a drag move or of a
\* resize move has delay 0, and one scheduled while neither the dragging flag
\* is set nor resize listeners are registered has delay 50.
C25_ZeroDelayDuringGesture ==
    /\ (last.kind \in {"drag", "resize"} /\ advised.to # "none")
            => advised.delay = 0
    /\ (advised.ran /\ advised.to # "none"
            /\ ~advised.dragging /\ ~advised.resizing)
            => advised.delay = 50



\* C26: at most one placement timer is pending, it is the one the last
\* evaluation scheduled, and a placement that changes takes the side the
\* most recent evaluation decided.
C26_OnePendingTimer ==
    /\ [](/\ Cardinality(posTimers) <= 1
          /\ \A t \in posTimers :
                /\ advised.ran
                /\ t.id = positionChangeTimeout
                /\ t.to = advised.to
                /\ t.delay = advised.delay)
    /\ [][recordingBoxPosition' # recordingBoxPosition
            => recordingBoxPosition' = advised.to]_vars

\* An evaluation found a switch pending, cancelled it and scheduled nothing:
\* the placement stays where it was.
C26_PendingSwitchCancelled ==
    /\ advised.ran
    /\ advised.cancelled
    /\ advised.to = "none"
    /\ posTimers = {}
    /\ recordingBoxPosition = advised.position



\* ---- Gestures across a container resize ----

NextRescale ==
    \/ Mount
    \/ updateContainerSize
    \/ handleDragStart
    \/ handleDrag
    \/ handleMouseDown
    \/ resizeMouseMove
    \/ resizeFrame
    \/ handleMouseUp
    \/ positionTimeout
    \/ advisorFrame

SpecRescale == InitWheel /\ [][NextRescale]_vars

\* C27: the mapped delta of every drag move and of every resize move is the
\* pointer's displacement divided by the scale factors of the container as
\* it is at that move.
C27_MoveUsesCurrentScale ==
    (/\ last.kind \in {"drag", "resize"}
     /\ Gt(containerToMappedSizeScale.x, I(0))
     /\ Gt(containerToMappedSizeScale.y, I(0)))
        => last.delta = XY(Div(last.client.x, containerToMappedSizeScale.x),
                           Div(last.client.y, containerToMappedSizeScale.y))



\* ---- Touch gestures ----

MaxTouchEvents == 4

\* A square, a wide and a tall crop without a fixed ratio, and a wide crop
\* under a fixed ratio of 1.
TouchConfigs ==
    {Config(Props(Some(XYI(1000, 1000)), I(0), None), Crop(200, 200, 400, 400),
            XYI(1000, 1000), FALSE),
     Config(Props(Some(XYI(1000, 1000)), I(0), None), Crop(300, 400, 400, 200),
            XYI(1000, 1000), FALSE),
     Config(Props(Some(XYI(1000, 1000)), I(0), None), Crop(400, 500, 200, 400),
            XYI(1000, 1000), FALSE),
     Config(Props(Some(XYI(1000, 1000)), I(1), None), Crop(300, 400, 400, 200),
            XYI(1000, 1000), FALSE)}

InitTouch == InitWith(TouchConfigs, PointerPoints, KeyEvents, MaxTouchEvents)

NextTouch ==
    \/ Mount
    \/ handleTouchStart
    \/ handleTouchMove
    \/ handleTouchEnd
    \/ positionTimeout
    \/ advisorFrame

SpecTouch == InitTouch /\ [][NextTouch]_vars

\* C28: after a touchend that leaves no touch, the gesture state is the empty
\* initial one: no last touch centre, pinch distance 0, initial size (0, 0),
\* and the dragging flag is off.
C28_TouchEndResetsGestureState ==
    (last.kind = "touchEnd" /\ touches = <<>>)
        => /\ gestureState.lastTouchCenter = None
           /\ gestureState.initialPinchDistance = I(0)
           /\ gestureState.initialSize = [width |-> I(0), height |-> I(0)]
           /\ ~dragging

\* C29: a touchend that leaves one touch sets lastTouchCenter to that touch,
\* and a one-finger move is converted from the displacement of that finger;
\* a touchend that leaves none clears lastTouchCenter and the dragging flag.
C29_TouchEndReanchors ==
    /\ (last.kind = "touchEnd" /\ Len(touches) = 1)
            => gestureState.lastTouchCenter = Some(touches[1])
    /\ (last.kind = "touchEnd" /\ touches = <<>>)
            => (gestureState.lastTouchCenter = None /\ ~dragging)
    /\ (last.kind = "touchDrag" /\ Gt(containerToMappedSizeScale.x, I(0))
            /\ Gt(containerToMappedSizeScale.y, I(0)))
            => last.delta = XY(Div(last.client.x, containerToMappedSizeScale.x),
                               Div(last.client.y, containerToMappedSizeScale.y))

\* One finger moved after a second finger had been down and was lifted.
C29_OneFingerMoveAfterPinch ==
    /\ last.kind = "touchDrag"
    /\ Len(touches) = 1
    /\ gestureState.initialPinchDistance # I(0)
    /\ last.delta # NoXY

\* C30: a two-finger move commits a size with the width / height ratio the
\* crop had before the move.
C30_PinchKeepsCurrentRatio ==
    last.kind = "pinch"
        => /\ last.committed
           /\ IsFinite(crop.size.x) /\ IsFinite(crop.size.y)
           /\ Gt(crop.size.y, I(0))
           /\ Div(crop.size.x, crop.size.y)
                = Div(last.pre.size.x, last.pre.size.y)



\* C31: once the terminal event of a pointer gesture has been handled, the
\* gesture's listeners are removed and the gesture commits nothing more: a
\* drag move or a resize move commits only while its listeners are registered.
C31_NoCommitAfterTerminalEvent ==
    /\ last.kind \in {"mouseUp", "touchEnd"} => ~resizeClosure.listening
    /\ last.kind = "mouseUp" => ~dragClosure.listening
    /\ last.kind = "drag" => dragClosure.listening
    /\ last.kind = "resize" => resizeClosure.listening



\* C32: whenever a two-touch move is processed, a pinch baseline has been
\* recorded: initialPinchDistance and both components of initialSize are
\* greater than 0.
C32_PinchBaselineRecorded ==
    last.kind = "pinch"
        => /\ Gt(gestureState.initialPinchDistance, I(0))
           /\ Gt(gestureState.initialSize.width, I(0))
           /\ Gt(gestureState.initialSize.height, I(0))



\* C33: a resize move from an edge handle, on a box that was inside the
\* boundary, leaves the other axis as it was before the move: height and y
\* for 'e' and 'w', width and x for 'n' and 's'.
C33_EdgeResizeKeepsOtherAxis ==
    (/\ last.kind = "resize"
     /\ DirLength(last.dir) = 1
     /\ InsideBoundary(last.pre, last.mapped))
        => IF last.dir \in {"e", "w"}
           THEN /\ crop.size.y = last.pre.size.y
                /\ crop.position.y = last.pre.position.y
           ELSE /\ crop.size.x = last.pre.size.x
                /\ crop.position.x = last.pre.position.x



\* ---- The placement advisor on a crop that does not change ----

MaxStillEvents == 3

StillConfigs ==
    {Config(Props(Some(XYI(1000, 1000)), I(0), None), Crop(200, y, 400, h),
            XYI(1000, 1000), FALSE) :
        y \in {0, 100, 160, 190, 200, 300}, h \in {500, 650, 700, 800}}

InitStill ==
    InitWith({c \in StillConfigs :
                 InsideBoundary(c.value, mappedSizeOf(c.props, c.client))},
             PointerPoints, KeyEvents, MaxStillEvents)

\* Evaluations from the frame effect and from window resizes, and the timers.
NextStill ==
    \/ Mount
    \/ handleResize
    \/ positionTimeout
    \/ advisorFrame

SpecStill == InitStill /\ [][NextStill]_vars

\* C34: with the crop, the panel height and the container unchanged, the
\* placement changes at most once: it starts at the bottom, so once at the
\* top it never goes back to the bottom.
C34_PlacementNeverReturns ==
    [][recordingBoxPosition = "top" => recordingBoxPosition' = "top"]_vars

\* The panel went to the top and a later evaluation there decided to stay.
C34_SettledAtTop ==
    /\ recordingBoxPosition = "top"
    /\ advised.ran
    /\ advised.position = "top"
    /\ advised.to = "none"
    /\ posTimers = {}



\* ---- The ratio catalog over a grid of resize candidates ----

\* From the handles of a 500x500 box at scale 1.
CatalogPoints ==
    {XYI(dx, dy) : dx \in {-300, -200, -100, -50, 0, 100},
                   dy \in {-300, -275, -250, -200, -125, -100, 0}}

InitCatalog ==
    InitWith({Config(Props(Some(XYI(1000, 1000)), I(0), None),
                     Crop(0, 0, 500, 500), XYI(1000, 1000), FALSE)},
             CatalogPoints, KeyEvents, MaxEvents)

SpecCatalog == InitCatalog /\ [][NextPointerResize]_vars

\* The catalog entries, each with its inverse, within the threshold of
\* width / height.
WithinThreshold(width, height) ==
    {r \in CatalogRatios :
        Lt(MathAbs(Sub(Div(width, height), R(r[1], r[2]))), SnapThreshold)}

\* C35: on the candidate of a resize move at most one catalog entry, inverses
\* counted, is within 0.01 of width / height, and findClosestRatio reports
\* that entry, which is also the catalog entry nearest to width / height; any
\* two different catalog values are at least twice the threshold apart.
C35_AtMostOneMatch ==
    (last.kind = "resize" /\ ~Truthy(props.aspectRatio)
            /\ Gt(last.req.y, I(0)) /\ Gt(last.req.x, I(0))) =>
        LET closest == findClosestRatio(props.aspectRatio, last.req.x, last.req.y)
            within == WithinThreshold(last.req.x, last.req.y)
            off(r) == MathAbs(Sub(Div(last.req.x, last.req.y), R(r[1], r[2])))
        IN  /\ Cardinality({R(r[1], r[2]) : r \in within}) <= 1
            /\ closest = NULL <=> within = {}
            /\ closest # NULL
                   => /\ closest \in within
                      /\ \A r \in CatalogRatios : Le(off(closest), off(r))
            /\ \A a, b \in CatalogRatios :
                   R(a[1], a[2]) # R(b[1], b[2])
                       => Ge(MathAbs(Sub(R(a[1], a[2]), R(b[1], b[2]))),
                             Mul(I(2), SnapThreshold))

\* A resize candidate of 400x300 matched 4:3.
C35_MatchedFourThirds ==
    /\ last.kind = "resize"
    /\ last.req = XYI(400, 300)
    /\ findClosestRatio(props.aspectRatio, last.req.x, last.req.y) = <<4, 3>>



\* ---- Bursts of keydowns before one frame ----

MaxBurstEvents == 3

InitKeyBurst == InitWith(KeyConfigs, PointerPoints, KeyEvents, MaxBurstEvents)

SpecKeyBurst == InitKeyBurst /\ [][NextKeys]_vars

\* C36: the mutation a keyboard frame commits is the one of the first arrow
\* keydown that arrived since the frame before it, with that keydown's
\* direction, step and mode; the later keydowns of the burst leave no
\* callback waiting for a later frame.
C36_FirstKeyDownDecides ==
    last.kind \in {"keyResize", "keyMove"}
        => /\ keyed.handled # <<>>
           /\ last.ev = keyed.handled[1]
           /\ last.kind = IF keyed.handled[1].mod THEN "keyResize" ELSE "keyMove"
           /\ last.dir = KEY_MAPPINGS[keyed.handled[1].key]
           /\ crop = KeyTarget(last.pre, minSize, mappedSize,
                               containerToMappedSizeScale, keyed.handled[1])
           /\ keyed.downs = <<>>
           /\ KeyRequestsWaiting = 0

\* A frame answered a burst whose second keydown differs from the first in
\* direction, in step and in mode.
C36_BurstOfDifferentKeys ==
    /\ last.kind \in {"keyResize", "keyMove"}
    /\ Len(keyed.handled) >= 2
    /\ keyed.handled[1].key # keyed.handled[2].key
    /\ keyed.handled[1].shift # keyed.handled[2].shift
    /\ keyed.handled[1].mod # keyed.handled[2].mod
    /\ crop # last.pre

\* ---------------------------------------------------------------------------
\* The share button: the steps of the uploadVideo mutation.  A step is the
\* code of the mutation function between two awaits.
\* ---------------------------------------------------------------------------

cropperVars ==
    <<props, env, crop, containerSize, mounted, snapToRatioEnabled, snappedRatio,
      dragging, gestureState, pressedKeys, lastKeyHandleFrame, dragClosure,
      resizeClosure, hapticRequests, rafQueue, frameQueue, trackpadTimers,
      recordingBoxPosition, positionChangeTimeout, posTimers, inputs, touches,
      mouseDown, budget, last, run, advised, keyed>>

\* The runs suspended at one of the awaits pcs.
RunsAt(pcs) == {r \in 1..Len(upload.runs) : upload.runs[r].pc \in pcs}

\* The runs that have not settled.
RunsInProgress == RunsAt({"auth", "showSignIn", "metadata", "plan", "showUpgrade",
                          "listen", "export", "upload", "showSignInAgain"})

\* The awaits inside the try block, whose finally calls unlisten().
TryPcs == {"export", "upload", "showSignInAgain"}

\* The runs whose uploadProgress listener is registered.
Listening == {r \in 1..Len(upload.runs) :
                 upload.runs[r].registered > upload.runs[r].unlistened}

Step(kind, r) ==
    [kind |-> kind, run |-> r, pre |-> upload.uploadState,
     status |-> upload.status, pending |-> RunsInProgress]

\* The run r goes on to the await pc with the fields of its record changed
\* to runRecord and the store set to state.
Goes(kind, r, runRecord, state) ==
    upload' = [upload EXCEPT !.runs[r] = runRecord, !.uploadState = state,
                             !.last = Step(kind, r)]

\* The mutation function of run r ends, returning (outcome "success") or
\* throwing (outcome "error"): the finally block of the try it is in calls
\* unlisten(), the mutation's observer takes the outcome if the run is its
\* current one, and onSettled starts the 2000 ms timer.
Settles(kind, r, runRecord, state, outcome) ==
    upload' =
        [upload EXCEPT
            !.runs[r] = [runRecord EXCEPT
                            !.pc = "done",
                            !.unlistened = IF upload.runs[r].pc \in TryPcs
                                           THEN @ + 1 ELSE @,
                            !.settled = outcome],
            !.uploadState = state,
            !.status = IF upload.current = r THEN outcome ELSE @,
            !.timers = Append(@, r),
            !.last = Step(kind, r)]

\* onClick of the share and reupload buttons, disabled while the mutation is
\* pending: uploadVideo.mutate(), and the mutation function up to its first
\* await.
mutate ==
    /\ upload.status # "pending"
    /\ Len(upload.runs) < MaxRuns
    /\ upload' = [upload EXCEPT
                     !.uploadState = UploadIdle,
                     !.status = "pending",
                     !.current = Len(upload.runs) + 1,
                     !.runs = Append(@, NewRun),
                     !.last = Step("mutate", Len(upload.runs) + 1)]
    /\ UNCHANGED cropperVars

\* authStore.get() resolves; recordingMeta() is read.
authResolved ==
    /\ \E r \in RunsAt({"auth"}), existingAuth \in BOOLEAN, meta \in BOOLEAN :
        \E rec \in {upload.runs[r]} :
          IF ~existingAuth
          THEN Goes("authResolved", r, [rec EXCEPT !.pc = "showSignIn"],
                    upload.uploadState)
          ELSE IF ~meta
          THEN Settles("authResolved", r, [rec EXCEPT !.auth = TRUE],
                       upload.uploadState, "error")
          ELSE Goes("authResolved", r,
                    [rec EXCEPT !.auth = TRUE, !.meta = TRUE, !.pc = "metadata"],
                    upload.uploadState)
    /\ UNCHANGED cropperVars

\* commands.showWindow() resolves; the mutation function throws.
showWindowResolved ==
    /\ \E r \in RunsAt({"showSignIn", "showUpgrade", "showSignInAgain"}) :
        Settles("showWindowResolved", r, upload.runs[r], upload.uploadState,
                "error")
    /\ UNCHANGED cropperVars

\* commands.getVideoMetadata() resolves.
metadataResolved ==
    /\ \E r \in RunsAt({"metadata"}), duration \in Durations :
        Goes("metadataResolved", r,
             [upload.runs[r] EXCEPT !.duration = duration, !.pc = "plan"],
             upload.uploadState)
    /\ UNCHANGED cropperVars

\* commands.checkUpgradedAndUpdate() resolves; canShare is computed.
planResolved ==
    /\ \E r \in RunsAt({"plan"}), plan \in BOOLEAN :
        \E rec \in {upload.runs[r]} :
          IF ~CanShare(plan, rec.duration)
                /\ CanShareReason(plan, rec.duration) = "upgrade_required"
          THEN Goes("planResolved", r, [rec EXCEPT !.pc = "showUpgrade"],
                    upload.uploadState)
          ELSE Goes("planResolved", r,
                    [rec EXCEPT !.allowed = CanShare(plan, rec.duration),
                                !.pc = "listen"],
                    upload.uploadState)
    /\ UNCHANGED cropperVars

\* events.uploadProgress.listen() resolves: the listener is registered, the
\* try block is entered, the state becomes starting and exportVideo is
\* called.
listenResolved ==
    /\ \E r \in RunsAt({"listen"}) :
        Goes("listenResolved", r,
             [upload.runs[r] EXCEPT !.registered = @ + 1, !.pc = "export"],
             UploadState("starting", 0, 0, 0))
    /\ UNCHANGED cropperVars

\* A message of the export's progress channel.
channelMessage ==
    /\ upload.messages > 0
    /\ \E r \in RunsAt({"export"}), msg \in ChannelMessages :
        upload' = [upload EXCEPT
                      !.uploadState = OnChannelMessage(@, msg),
                      !.messages = @ - 1,
                      !.last = Step(msg.type, r)]
    /\ UNCHANGED cropperVars

\* commands.exportVideo() resolves: the state becomes uploading and
\* uploadExportedVideo is called.
exportResolved ==
    /\ \E r \in RunsAt({"export"}) :
        Goes("exportResolved", r, [upload.runs[r] EXCEPT !.pc = "upload"],
             UploadState("uploading", 0, 0, 0))
    /\ UNCHANGED cropperVars

\* An uploadProgress event reaches the registered listeners.
progressEvent ==
    /\ upload.messages > 0
    /\ Listening # {}
    /\ \E payload \in ProgressPayloads :
        upload' = [upload EXCEPT
                      !.uploadState = OnUploadProgress(@, payload),
                      !.messages = @ - 1,
                      !.last = Step("progress", 0)]
    /\ UNCHANGED cropperVars

\* commands.uploadExportedVideo() resolves with a result.
uploadResolved ==
    /\ \E r \in RunsAt({"upload"}), result \in UploadResults :
        \E rec \in {[upload.runs[r] EXCEPT !.result = result]} :
          IF AfterUpload(result) = "signin"
          THEN Goes("uploadResolved", r, [rec EXCEPT !.pc = "showSignInAgain"],
                    upload.uploadState)
          ELSE IF AfterUpload(result) = "throw"
          THEN Settles("uploadResolved", r, rec, upload.uploadState, "error")
          ELSE Settles("uploadResolved", r, rec,
                       UploadState("link-copied", 0, 0, 0), "success")
    /\ UNCHANGED cropperVars

\* An awaited command rejects: the mutation function throws.
commandRejected ==
    /\ \E r \in RunsAt({"metadata", "plan", "listen", "export", "upload"}) :
        Settles("commandRejected", r, upload.runs[r], upload.uploadState,
                "error")
    /\ UNCHANGED cropperVars

\* The 2000 ms timer of onSettled: the state becomes idle and
\* uploadVideo.reset() detaches the observer from its current mutation.
settledTimeout ==
    /\ upload.timers # <<>>
    /\ upload' = [upload EXCEPT
                     !.uploadState = UploadIdle,
                     !.status = "idle",
                     !.current = 0,
                     !.timers = Tail(@),
                     !.last = Step("settledTimeout", Head(upload.timers))]
    /\ UNCHANGED cropperVars

InitUpload ==
    InitWith({Config(Props(None, I(0), None), Crop(0, 0, 500, 500),
                     XYI(1000, 1000), FALSE)}, PointerPoints, KeyEvents, 0)

NextUpload ==
    \/ mutate
    \/ authResolved
    \/ showWindowResolved
    \/ metadataResolved
    \/ planResolved
    \/ listenResolved
    \/ channelMessage
    \/ exportResolved
    \/ progressEvent
    \/ uploadResolved
    \/ commandRejected
    \/ settledTimeout

SpecUpload == InitUpload /\ [][NextUpload]_vars

\* C37: the state link-copied is reached only when the upload result is a
\* Success; for every other upload result (NotAuthenticated,
\* PlanCheckFailed, UpgradeRequired, ShareableLinkLimitReached) the mutation
\* ends in error and link-copied is not set.
C37_LinkCopiedOnlyOnSuccess ==
    /\ \A r \in 1..Len(upload.runs) :
          upload.runs[r].result \in UploadResults \ {"Success"}
              => /\ upload.runs[r].settled # "success"
                 /\ upload.runs[r].pc = "done" => upload.runs[r].settled = "error"
    /\ (upload.last.kind = "uploadResolved"
            /\ upload.uploadState.type = "link-copied")
           => upload.runs[upload.last.run].result = "Success"

\* C38: the reset that runs 2000 ms after an upload run settled changes
\* nothing of a later run: when a later run is in progress, the timer leaves
\* the upload state as it was (not back to idle) and does not reset the
\* mutation.
C38_ResetLeavesLaterRunAlone ==
    (upload.last.kind = "settledTimeout"
        /\ \E r \in upload.last.pending : r > upload.last.run)
       => /\ upload.uploadState = upload.last.pre
          /\ upload.status = upload.last.status

\* C39: in every run the uploadProgress listener is registered only after
\* the authentication, metadata and plan checks passed, at most once, and it
\* is removed exactly once, when the run ends, however the run ends; a
\* progress event changes progress only while the state is uploading, and a
\* FrameRendered message changes renderedFrames only while the state is
\* rendering.
C39_ListenerLifecycle ==
    /\ \A r \in 1..Len(upload.runs) :
          \E rec \in {upload.runs[r]} :
             /\ rec.registered <= 1
             /\ rec.registered = 1 => rec.auth /\ rec.meta /\ rec.allowed
             /\ rec.unlistened = IF rec.pc = "done" THEN rec.registered ELSE 0
    /\ (upload.last.kind = "progress" /\ upload.last.pre.type # "uploading")
           => upload.uploadState = upload.last.pre
    /\ (upload.last.kind = "FrameRendered" /\ upload.last.pre.type # "rendering")
           => upload.uploadState = upload.last.pre

\* A run that registered its listener ended by a throw, and in a later run a
\* progress event arrived while the export was rendering.
C39_ThrownRunAndEarlyProgress ==
    /\ \E r \in 1..Len(upload.runs) :
          /\ upload.runs[r].pc = "done"
          /\ upload.runs[r].registered = 1
          /\ upload.runs[r].settled = "error"
    /\ upload.last.kind = "progress"
    /\ upload.last.pre.type = "rendering"
    /\ Listening # {}


====
